---- MODULE Spec2Model ----
(***************************************************************************)
(* Burn-and-record reconciliation protocol of the De Evils burn platform:  *)
(* the submission endpoint POST /api/burn-and-upgrade with its MongoDB     *)
(* store and index setup, and the client flow burnMultipleNFTs with its    *)
(* recorder recordBurns.                                                   *)
(*                                                                         *)
(* Strings are modelled as records [core, pad]: core is the text that      *)
(* survives sanitizeString, pad says whether the raw string carries        *)
(* anything sanitizeString removes (surrounding blanks, tags, control      *)
(* characters).  Two raw strings are equal iff both fields are equal.      *)
(***************************************************************************)
EXTENDS Integers, Sequences, FiniteSets, TLC

VARIABLES
    store,            \* burnt_nfts collection: a set of documents
    mintIndex,        \* unique index {mint: 1} exists
    upgIndex,         \* unique sparse index {upgradeTargetMint: 1} exists
    indexesEnsured,   \* global._indexesEnsured === INDEX_VERSION
    tickets,          \* rate_limits collection: live tickets per ip
    chainTx,          \* ledger: transactions by signature
    assets,           \* ledger: assets that still exist
    req,              \* in-flight POST requests, per request slot
    flow,             \* the client hook useBurnNFT: burnMultipleNFTs / recordBurns
    query,            \* an in-flight GET /api/locked-mints request
    audit,            \* the reconciliation script scripts/verify-burns.ts
    burnt,            \* DAS index: the collection's burnt assets with their history
    page              \* the page component Home: wallet, step, selections, useNFTs

vars == <<store, mintIndex, upgIndex, indexesEnsured, tickets, chainTx, assets, req, flow,
          query, audit, burnt, page>>

----------------------------------------------------------------------------
\* Bounds of the model

\* longest burns / upgrades list a directly posted request body carries
MaxBurns == 2
\* largest selection handed to burnMultipleNFTs
MaxSelect == 7
\* recording attempts after which the model stops counting
AttemptCap == 4

\* Program constants
BURNS_PER_TX == 3
RATE_LIMIT_MAX == 5
MAX_RETRIES == 3

----------------------------------------------------------------------------
\* Strings

Str(c, p) == [core |-> c, pad |-> p]
Empty == Str("", FALSE)
\* JavaScript truthiness of a string: every non-empty string is truthy
Truthy(s) == s # Empty

\* sanitizeString: strips tags, control characters and surrounding blanks
sanitizeString(value) == Str(value.core, FALSE)

\* new PublicKey(s) succeeds: a base58 address carries nothing removable
ValidKey(s) == s.core # "" /\ ~s.pad

Wallets == {"W1", "W2"}
IPs == {"ip1"}
Slots == {"r1", "r2"}

----------------------------------------------------------------------------
\* Request bodies (BurnBatchRequest)

Range(s) == {s[i] : i \in 1..Len(s)}

Burn(m, sig, n) == [mintAddress |-> m, transactionSignature |-> sig, name |-> n]
Upgrade(bm, um, un) == [burnedMint |-> bm, upgradeMint |-> um, upgradeName |-> un]
Body(w, bs, us) == [walletAddress |-> w, burns |-> bs, upgrades |-> us]

NameOf(m) == Str(m.core, FALSE)

\* The body recordBurns builds: one sig per burn, upgrades matched by index
ClientBody(w, ms, sigs, ups) ==
    Body(w,
         [i \in 1..Len(ms) |-> Burn(ms[i], sigs[i], NameOf(ms[i]))],
         [i \in 1..Len(ups) |->
             Upgrade(IF i <= Len(ms) THEN ms[i] ELSE Empty, ups[i], NameOf(ups[i]))])

SeqsUpTo(S, n) == UNION {[1..k -> S] : k \in 0..n}

A == Str("A", FALSE)
B == Str("B", FALSE)
U == Str("U", FALSE)

\* Mint strings a posted body may name as burned: two addresses and a malformed one
PostMints == {A, B, Str("A", TRUE)}
\* Upgrade targets a posted body may name: U, U with removable decoration, the
\* burn candidate A, and the empty string
PostUpgrades == {U, Str("U", TRUE), A, Empty}
\* The burn transaction each wallet signed
SigOfWallet(w) == IF w = "W1" THEN "S1" ELSE "S2"

\* Bodies posted directly to the endpoint (any client may post anything): bodies
\* shaped as recordBurns shapes them, over arbitrary lists (W2 posts single
\* burns), bodies with a missing field or a signature that does not verify, a
\* body whose upgrade entries are not in the order of its burns, and a body whose
\* upgrade target is its burned mint with removable decoration
PostBodies ==
    {ClientBody(w, ms, [i \in 1..Len(ms) |-> SigOfWallet(w)], ups) :
        w \in {"W1"}, ms \in SeqsUpTo(PostMints, MaxBurns),
        ups \in SeqsUpTo(PostUpgrades, MaxBurns)}
    \cup {ClientBody(w, ms, [i \in 1..Len(ms) |-> SigOfWallet(w)], ups) :
        w \in {"W2"}, ms \in SeqsUpTo(PostMints, 1), ups \in SeqsUpTo(PostUpgrades, 1)}
    \cup {Body(w, <<Burn(A, sig, n)>>, <<Upgrade(A, U, U)>>) :
            w \in {"", "W1"}, sig \in {"", "S2", "S3", "S4"}, n \in {A, Empty}}
    \cup {Body("W1", <<Burn(A, "S1", A), Burn(B, "S1", B)>>,
                <<Upgrade(B, U, U), Upgrade(A, Empty, Empty)>>),
          Body("W1", <<Burn(B, "S1", B)>>, <<Upgrade(B, Str("B", TRUE), B)>>)}

\* The ledger the endpoint verifies against: S1 (fee payer W1) names A and B among
\* its accounts, S2 (fee payer W2) names A, S3 failed on-chain, S4 does not exist
Tx(sig, err, payer, keys) == [sig |-> sig, err |-> err, feePayer |-> payer, keys |-> keys]
PostChain == {Tx("S1", FALSE, "W1", {A, B}), Tx("S2", FALSE, "W2", {A}),
              Tx("S3", TRUE, "W1", {A})}

EmptyBody == Body("", <<>>, <<>>)

----------------------------------------------------------------------------
\* POST /api/burn-and-upgrade: the synchronous parts of the handler

Resp(s, e) == [status |-> s, error |-> e]
Pending == Resp(0, "")

MintAddresses(body) == [i \in 1..Len(body.burns) |-> body.burns[i].mintAddress]
burnMintSet(body) == Range(MintAddresses(body))
\* upgrades.map((u) => u.upgradeMint).filter(Boolean)
upgradeMints(body) ==
    SelectSeq([i \in 1..Len(body.upgrades) |-> body.upgrades[i].upgradeMint], Truthy)

\* The handler without the checks of step 7
ValidateBurnsSkipped(burns, i) == Pending

\* Step 7: the first burn entry that fails a check decides the answer
RECURSIVE ValidateBurns(_, _)
ValidateBurns(burns, i) ==
    IF i > Len(burns) THEN Pending
    ELSE IF ~Truthy(burns[i].mintAddress) \/ burns[i].transactionSignature = ""
            \/ ~Truthy(burns[i].name)
        THEN Resp(400, "Invalid burn entry")
    ELSE IF ~ValidKey(burns[i].mintAddress)
        THEN Resp(400, "Invalid mint address")
    ELSE ValidateBurns(burns, i + 1)

\* The handler without step 7d
UpgradeOverlapsBurnOff(body) == FALSE

\* Step 7d
UpgradeOverlapsBurn(body) == \E um \in Range(upgradeMints(body)) : um \in burnMintSet(body)

\* Steps 5 to 7e: the first failing check decides the answer; Pending when all pass
Validate(body) ==
    IF body.walletAddress = "" \/ Len(body.burns) = 0
        THEN Resp(400, "Missing required fields")
    ELSE IF body.walletAddress \notin Wallets
        THEN Resp(400, "Invalid wallet address")
    ELSE IF ValidateBurns(body.burns, 1) # Pending
        THEN ValidateBurns(body.burns, 1)
    ELSE IF Cardinality(burnMintSet(body)) # Len(body.burns)
        THEN Resp(400, "Duplicate mint addresses in burn list")
    ELSE IF Len(body.upgrades) # Len(body.burns)
        THEN Resp(400, "Upgrades array must match burns array length")
    ELSE IF UpgradeOverlapsBurn(body)
        THEN Resp(400, "An upgrade target cannot also be a burned NFT")
    ELSE IF Cardinality(Range(upgradeMints(body))) # Len(upgradeMints(body))
        THEN Resp(400, "Duplicate upgrade targets in request")
    ELSE Pending

\* The handler without step 8: no mint is ever reported as recorded
ExistingMintsSkipped(st, body) == {}

\* Step 8: collection.find({ mint: { $in: mintAddresses } })
ExistingMints(st, body) == {d \in st : d.mint \in burnMintSet(body)}

\* The handler without step 8b: no upgrade target is ever reported as claimed
LockedTargetsSkipped(st, body) == {}

\* Step 8b: collection.find({ upgradeTargetMint: { $in: upgradeMints } })
LockedTargets(st, body) ==
    {d \in st : d.hasUpg /\ d.upgradeTargetMint \in Range(upgradeMints(body))}

\* Step 9: distinct signatures in order of first appearance (txGroups)
RECURSIVE SigOrder(_, _, _)
SigOrder(burns, i, acc) ==
    IF i > Len(burns) THEN acc
    ELSE SigOrder(burns, i + 1,
                  IF burns[i].transactionSignature \in Range(acc) THEN acc
                  ELSE Append(acc, burns[i].transactionSignature))

\* connection.getTransaction(sig): the confirmed transactions with that signature
GetTransaction(chain, sig) == {t \in chain : t.sig = sig}

\* The handler without the checks of step 9
VerifyGroupSkipped(chain, body, sig) == Pending

\* The checks of one signature group; Pending when the group passes
VerifyGroup(chain, body, sig) ==
    LET found == GetTransaction(chain, sig)
        tx == CHOOSE t \in found : TRUE
        groupBurns == {b \in Range(body.burns) : b.transactionSignature = sig}
    IN  IF found = {} THEN Resp(400, "Transaction not found")
        ELSE IF tx.err THEN Resp(400, "Transaction failed on-chain")
        ELSE IF tx.feePayer # body.walletAddress
            THEN Resp(400, "Transaction not signed by claimed wallet")
        ELSE IF \E b \in groupBurns : b.mintAddress \notin tx.keys
            THEN Resp(400, "Mint not found in transaction")
        ELSE Pending

\* Step 9 over all groups: [resp, calls], calls = getTransaction calls made
RECURSIVE VerifyOnChain(_, _, _, _)
VerifyOnChain(chain, body, sigs, i) ==
    IF i > Len(sigs) THEN [resp |-> Pending, calls |-> Len(sigs)]
    ELSE IF VerifyGroup(chain, body, sigs[i]) # Pending
        THEN [resp |-> VerifyGroup(chain, body, sigs[i]), calls |-> i]
    ELSE VerifyOnChain(chain, body, sigs, i + 1)

\* Upgrade entries read by position instead of by burnedMint
UpgradeIndexForPosition(body, mint) ==
    LET hits == {i \in 1..Len(body.upgrades) :
                    body.burns[i].mintAddress = mint /\ Truthy(body.upgrades[i].upgradeMint)}
    IN  IF hits = {} THEN 0 ELSE CHOOSE i \in hits : TRUE

\* Step 10: upgradeMap.get(mint): the last upgrade entry naming the mint, both
\* fields truthy; 0 when there is none
UpgradeIndexFor(body, mint) ==
    LET hits == {i \in 1..Len(body.upgrades) :
                    /\ body.upgrades[i].burnedMint = mint
                    /\ Truthy(body.upgrades[i].burnedMint)
                    /\ Truthy(body.upgrades[i].upgradeMint)}
    IN  IF hits = {} THEN 0 ELSE CHOOSE i \in hits : \A j \in hits : j <= i

Unknown == Str("Unknown", FALSE)

\* Step 11: one document per burn; id stands for the _id the driver assigns
BuildRecords(body, who) ==
    [i \in 1..Len(body.burns) |->
        LET burn == body.burns[i]
            k == UpgradeIndexFor(body, burn.mintAddress)
            safeName == sanitizeString(burn.name)
        IN  [id |-> <<who, i>>,
             mint |-> burn.mintAddress,
             name |-> IF Truthy(safeName) THEN safeName ELSE Unknown,
             burntBy |-> body.walletAddress,
             transactionSignature |-> burn.transactionSignature,
             hasUpg |-> k # 0,
             upgradeTargetMint |->
                 IF k # 0 THEN sanitizeString(body.upgrades[k].upgradeMint) ELSE Empty,
             upgradeTargetName |->
                 IF k # 0 THEN sanitizeString(body.upgrades[k].upgradeName) ELSE Empty]]

\* A document violates a unique index that exists
DuplicateKey(st, d, mIdx, uIdx) ==
    \/ mIdx /\ \E e \in st : e.mint = d.mint
    \/ uIdx /\ d.hasUpg /\ \E e \in st : e.hasUpg /\ e.upgradeTargetMint = d.upgradeTargetMint

\* An insert that writes the collection anew from the submitted documents
InsertManyReplacing(st, records, i, mIdx, uIdx, dup) ==
    [store |-> {records[k] : k \in 1..Len(records)}, dup |-> FALSE]

\* Step 12: insertMany(records, { ordered: false }): every document is tried, the
\* ones that violate a unique index are skipped and reported (code 11000)
RECURSIVE InsertMany(_, _, _, _, _, _)
InsertMany(st, records, i, mIdx, uIdx, dup) ==
    IF i > Len(records) THEN [store |-> st, dup |-> dup]
    ELSE IF DuplicateKey(st, records[i], mIdx, uIdx)
        THEN InsertMany(st, records, i + 1, mIdx, uIdx, TRUE)
    ELSE InsertMany(st \cup {records[i]}, records, i + 1, mIdx, uIdx, dup)

----------------------------------------------------------------------------
\* POST /api/burn-and-upgrade as a process: one step per awaited call

\* What an observer notes about a body when the handler parses it: it names an
\* upgrade target that it also burns; it names an upgrade target that a stored
\* record already claims
SelfClaim(body) ==
    \E i \in 1..Len(body.upgrades), j \in 1..Len(body.burns) :
        Truthy(body.upgrades[i].upgradeMint)
        /\ body.upgrades[i].upgradeMint = body.burns[j].mintAddress
AlreadyClaimed(st, body) ==
    \E i \in 1..Len(body.upgrades), d \in st :
        Truthy(body.upgrades[i].upgradeMint)
        /\ d.hasUpg /\ d.upgradeTargetMint = body.upgrades[i].upgradeMint
\* ... it is malformed: a field is missing, an address is no address, a mint or
\* an upgrade target occurs twice, the lists differ in length, or a target is burned
Malformed(body) ==
    \/ body.walletAddress \notin Wallets
    \/ Len(body.burns) = 0
    \/ \E i \in 1..Len(body.burns) :
          \/ body.burns[i].mintAddress.core = "" \/ body.burns[i].mintAddress.pad
          \/ body.burns[i].transactionSignature = ""
          \/ body.burns[i].name = Empty
    \/ \E i, j \in 1..Len(body.burns) :
          i # j /\ body.burns[i].mintAddress = body.burns[j].mintAddress
    \/ Len(body.upgrades) # Len(body.burns)
    \/ \E i, j \in 1..Len(body.upgrades) :
          /\ i # j /\ body.upgrades[i].upgradeMint # Empty
          /\ body.upgrades[i].upgradeMint = body.upgrades[j].upgradeMint
    \/ SelfClaim(body)
\* ... and the mints it burns that a stored record already names
AlreadyRecorded(st, body) ==
    {body.burns[i].mintAddress : i \in {j \in 1..Len(body.burns) :
                                          \E d \in st : d.mint = body.burns[j].mintAddress}}

\* A request slot.  storeCalls and chainCalls log the collections and the RPC
\* node the request has called so far ("insertMany" marks the insert of step 12);
\* listed holds the mints an 'Already recorded' error lists and recorded the
\* count a success response reports; selfClaim, malformed, claimedAtParse and
\* recordedAtParse are the observer's notes above; rlFailed notes that a call of
\* checkRateLimit failed and ticket that the request wrote a rate-limit ticket.
IdleReq ==
    [pc |-> "idle", ip |-> "ip1", body |-> EmptyBody, resp |-> Pending, ret |-> "",
     storeCalls |-> {}, chainCalls |-> 0, selfClaim |-> FALSE, claimedAtParse |-> FALSE,
     recordedAtParse |-> {}, listed |-> {}, recorded |-> 0, rlFailed |-> FALSE,
     ticket |-> FALSE, malformed |-> FALSE]

Done(q, resp) == [q EXCEPT !.pc = "done", !.resp = resp]
Called(q, col) == [q EXCEPT !.storeCalls = @ \cup {col}]

\* ensureIndexes, line 42: skip when the flag is set, else start dropping
EnterEnsure(q, ensured, next) ==
    IF ensured THEN [q EXCEPT !.pc = next]
    ELSE [q EXCEPT !.pc = "ei_drop", !.ret = next]

NoDuplicateMints(st) == \A d, e \in st : d.mint = e.mint => d = e
NoDuplicateTargets(st) ==
    \A d, e \in st : (d.hasUpg /\ e.hasUpg /\ d.upgradeTargetMint = e.upgradeTargetMint) => d = e

\* Steps 1 and 1b up to the first awaited call of checkRateLimit
PostStart(r) ==
    /\ req[r].pc = "idle"
    /\ \E allowed \in BOOLEAN, ip \in IPs :
        req' = [req EXCEPT ![r] =
                  IF ~allowed THEN Done(@, Resp(403, "Forbidden"))
                  ELSE EnterEnsure([@ EXCEPT !.ip = ip], indexesEnsured, "rl_count")]
    /\ UNCHANGED <<store, mintIndex, upgIndex, indexesEnsured, tickets, chainTx, assets, flow,
                 query, audit, burnt, page>>

\* ensureIndexes, lines 47-49: col.dropIndex('upgradeTargetMint_1')
EnsureDrop(r) ==
    /\ req[r].pc = "ei_drop"
    /\ upgIndex' = FALSE
    /\ req' = [req EXCEPT ![r] = Called([@ EXCEPT !.pc = "ei_create"], "indexes")]
    /\ UNCHANGED <<store, mintIndex, indexesEnsured, tickets, chainTx, assets, flow,
                 query, audit, burnt, page>>

\* ensureIndexes, lines 51-69: the createIndex calls, then the flag.  A unique
\* index cannot be built over duplicates: createIndex rejects, Promise.all rejects
\* and ensureIndexes throws before it sets the flag.  checkRateLimit swallows the
\* error and admits the request; getBurntNFTsCollection lets it reach the outer
\* catch, which answers 500.
EnsureCreate(r) ==
    /\ req[r].pc = "ei_create"
    /\ mintIndex' = (mintIndex \/ NoDuplicateMints(store))
    /\ upgIndex' = NoDuplicateTargets(store)
    /\ LET ok == NoDuplicateMints(store) /\ NoDuplicateTargets(store)
           q == Called(req[r], "indexes")
       IN  /\ indexesEnsured' = (indexesEnsured \/ ok)
           /\ req' = [req EXCEPT ![r] =
                        IF ok THEN [q EXCEPT !.pc = q.ret]
                        ELSE IF q.ret = "rl_count"
                            THEN [q EXCEPT !.pc = "parse", !.rlFailed = TRUE]
                        ELSE Done(q, Resp(500, "Internal server error"))]
    /\ UNCHANGED <<store, tickets, chainTx, assets, flow, query, audit, burnt, page>>

\* A checkRateLimit that refuses the request when its store call fails
AfterRateLimitErrorRefuses(q) ==
    [q EXCEPT !.pc = "done", !.rlFailed = TRUE, !.resp = [status |-> 429,
                                                          error |-> "Too many requests"]]

\* checkRateLimit, lines 122-124: a failing call is caught and admits the request
AfterRateLimitError(q) ==
    Called([q EXCEPT !.pc = "parse", !.rlFailed = TRUE], "rate_limits")

\* A handler that looks the burn records up before it refuses
RateLimitedAfterLookup(q) ==
    Done(Called(Called(q, "rate_limits"), "burnt_nfts"), Resp(429, "Too many requests"))

\* Lines 119 and 142-147: the count has reached the limit, the request is refused
RateLimited(q) == Done(Called(q, "rate_limits"), Resp(429, "Too many requests"))

\* checkRateLimit, lines 118-119: countDocuments({ ip })
RateCount(r) ==
    /\ req[r].pc = "rl_count"
    /\ \E dbOk \in BOOLEAN :
        req' = [req EXCEPT ![r] =
                  IF ~dbOk THEN AfterRateLimitError(@)
                  ELSE IF tickets[req[r].ip] >= RATE_LIMIT_MAX
                      THEN RateLimited(@)
                  ELSE Called([@ EXCEPT !.pc = "rl_insert"], "rate_limits")]
    /\ UNCHANGED <<store, mintIndex, upgIndex, indexesEnsured, tickets, chainTx, assets, flow,
                 query, audit, burnt, page>>

\* checkRateLimit, line 120: insertOne({ ip, createdAt })
RateInsert(r) ==
    /\ req[r].pc = "rl_insert"
    /\ \E dbOk \in BOOLEAN :
        /\ tickets' = IF dbOk THEN [tickets EXCEPT ![req[r].ip] = @ + 1] ELSE tickets
        /\ req' = [req EXCEPT ![r] =
                      IF dbOk THEN Called([@ EXCEPT !.pc = "parse", !.ticket = TRUE],
                                          "rate_limits")
                      ELSE AfterRateLimitError(@)]
    /\ UNCHANGED <<store, mintIndex, upgIndex, indexesEnsured, chainTx, assets, flow,
                 query, audit, burnt, page>>

\* The TTL index on createdAt removes a ticket 60 seconds after it was written
ExpireTicket ==
    /\ \E ip \in IPs :
        /\ tickets[ip] > 0
        /\ tickets' = [tickets EXCEPT ![ip] = @ - 1]
    /\ UNCHANGED <<store, mintIndex, upgIndex, indexesEnsured, chainTx, assets, req, flow,
                 query, audit, burnt, page>>

\* What the handler learns from a posted body in steps 5 to 7e
ValidPostBodies == {b \in PostBodies : Validate(b) = Pending}
RejectedPosts ==
    {[resp |-> Validate(b), selfClaim |-> SelfClaim(b), malformed |-> Malformed(b)] :
        b \in {x \in PostBodies : Validate(x) # Pending}}

\* Steps 2 to 4: the request is not JSON, too large, or does not parse
ParseReject(r) ==
    /\ req[r].pc = "parse"
    /\ \E resp \in {Resp(415, "Content-Type must be application/json"),
                    Resp(413, "Request body too large"),
                    Resp(400, "Invalid JSON body")} :
        req' = [req EXCEPT ![r] = Done(@, resp)]
    /\ UNCHANGED <<store, mintIndex, upgIndex, indexesEnsured, tickets, chainTx, assets, flow,
                 query, audit, burnt, page>>

\* Steps 5 to 7e reject the body
ValidateReject(r) ==
    /\ req[r].pc = "parse"
    /\ \E x \in RejectedPosts :
        req' = [req EXCEPT ![r] = Done([@ EXCEPT !.selfClaim = x.selfClaim,
                                                 !.malformed = x.malformed], x.resp)]
    /\ UNCHANGED <<store, mintIndex, upgIndex, indexesEnsured, tickets, chainTx, assets, flow,
                 query, audit, burnt, page>>

\* Steps 5 to 7e pass, then getBurntNFTsCollection up to its first awaited call
ValidateAccept(r) ==
    /\ req[r].pc = "parse"
    /\ \E body \in ValidPostBodies :
        req' = [req EXCEPT ![r] =
                  EnterEnsure([@ EXCEPT !.body = body,
                                        !.selfClaim = SelfClaim(body),
                                        !.malformed = Malformed(body),
                                        !.claimedAtParse = AlreadyClaimed(store, body),
                                        !.recordedAtParse = AlreadyRecorded(store, body)],
                              indexesEnsured, "find_mints")]
    /\ UNCHANGED <<store, mintIndex, upgIndex, indexesEnsured, tickets, chainTx, assets, flow,
                 query, audit, burnt, page>>

\* Step 8
FindMints(r) ==
    /\ req[r].pc = "find_mints"
    /\ req' = [req EXCEPT ![r] =
                 IF ExistingMints(store, @.body) # {}
                     THEN Done(Called([@ EXCEPT !.listed =
                                           {e.mint : e \in ExistingMints(store, req[r].body)}],
                                      "burnt_nfts"),
                               Resp(409, "Already recorded"))
                 ELSE Called([@ EXCEPT !.pc = IF Len(upgradeMints(req[r].body)) > 0
                                                 THEN "find_upg" ELSE "verify"],
                             "burnt_nfts")]
    /\ UNCHANGED <<store, mintIndex, upgIndex, indexesEnsured, tickets, chainTx, assets, flow,
                 query, audit, burnt, page>>

\* Step 8b
FindUpgradeTargets(r) ==
    /\ req[r].pc = "find_upg"
    /\ req' = [req EXCEPT ![r] =
                 IF LockedTargets(store, @.body) # {}
                     THEN Done(Called(@, "burnt_nfts"),
                               Resp(409, "Upgrade targets already claimed"))
                 ELSE Called([@ EXCEPT !.pc = "verify"], "burnt_nfts")]
    /\ UNCHANGED <<store, mintIndex, upgIndex, indexesEnsured, tickets, chainTx, assets, flow,
                 query, audit, burnt, page>>

\* Step 9
Verify(r) ==
    /\ req[r].pc = "verify"
    /\ LET v == VerifyOnChain(chainTx, req[r].body, SigOrder(req[r].body.burns, 1, <<>>), 1)
           q == [req[r] EXCEPT !.chainCalls = @ + v.calls]
       IN  req' = [req EXCEPT ![r] =
                     IF v.resp # Pending THEN Done(q, v.resp) ELSE [q EXCEPT !.pc = "insert"]]
    /\ UNCHANGED <<store, mintIndex, upgIndex, indexesEnsured, tickets, chainTx, assets, flow,
                 query, audit, burnt, page>>

\* Steps 10 to 12 and the success response
Insert(r) ==
    /\ req[r].pc = "insert"
    /\ LET ins == InsertMany(store, BuildRecords(req[r].body, r), 1, mintIndex, upgIndex, FALSE)
       IN  /\ store' = ins.store
           /\ req' = [req EXCEPT ![r] =
                        IF ins.dup
                            THEN Done(Called(Called(@, "burnt_nfts"), "insertMany"),
                                      Resp(409, "Some NFTs were already recorded"))
                        ELSE Done(Called(Called([@ EXCEPT !.recorded = Len(req[r].body.burns)],
                                                "burnt_nfts"), "insertMany"),
                                  Resp(200, ""))]
    /\ UNCHANGED <<mintIndex, upgIndex, indexesEnsured, tickets, chainTx, assets, flow,
                 query, audit, burnt, page>>

POST(r) ==
    \/ PostStart(r) \/ EnsureDrop(r) \/ EnsureCreate(r) \/ RateCount(r) \/ RateInsert(r)
    \/ ParseReject(r) \/ ValidateReject(r) \/ ValidateAccept(r) \/ FindMints(r) \/ FindUpgradeTargets(r) \/ Verify(r) \/ Insert(r)


IdleFlow == [pc |-> "idle"]
IdleQuery == [pc |-> "idle"]
IdleAudit == [pc |-> "idle"]
IdlePage == [step |-> 0]

\* A server process that has just started in front of a fresh database; earlier
\* requests of the ip have used all but one place of its window
InitServer ==
    /\ store = {}
    /\ mintIndex = FALSE
    /\ upgIndex = FALSE
    /\ indexesEnsured = FALSE
    /\ tickets = [ip \in IPs |-> RATE_LIMIT_MAX - 1]
    /\ chainTx = PostChain
    /\ assets = {}
    /\ req = [r \in Slots |-> IdleReq]
    /\ flow = IdleFlow
    /\ query = IdleQuery
    /\ audit = IdleAudit
    /\ burnt = <<>>
    /\ page = IdlePage

NextServer == \E r \in Slots : POST(r)

SpecServer == InitServer /\ [][NextServer]_vars

----------------------------------------------------------------------------
\* The endpoint as one client sees it: POST handled from the origin guard to the
\* response, for a same-origin request against a store whose indexes are set up

ServePost(st, tk, chain, body, who) ==
    IF tk >= RATE_LIMIT_MAX
        THEN [resp |-> Resp(429, "Too many requests"), store |-> st, tickets |-> tk]
    ELSE IF Validate(body) # Pending
        THEN [resp |-> Validate(body), store |-> st, tickets |-> tk + 1]
    ELSE IF ExistingMints(st, body) # {}
        THEN [resp |-> Resp(409, "Already recorded"), store |-> st, tickets |-> tk + 1]
    ELSE IF Len(upgradeMints(body)) > 0 /\ LockedTargets(st, body) # {}
        THEN [resp |-> Resp(409, "Upgrade targets already claimed"),
              store |-> st, tickets |-> tk + 1]
    ELSE IF VerifyOnChain(chain, body, SigOrder(body.burns, 1, <<>>), 1).resp # Pending
        THEN [resp |-> VerifyOnChain(chain, body, SigOrder(body.burns, 1, <<>>), 1).resp,
              store |-> st, tickets |-> tk + 1]
    ELSE LET ins == InsertMany(st, BuildRecords(body, who), 1, mintIndex, upgIndex, FALSE)
         IN  [resp |-> IF ins.dup THEN Resp(409, "Some NFTs were already recorded")
                       ELSE Resp(200, ""),
              store |-> ins.store, tickets |-> tk + 1]

----------------------------------------------------------------------------
\* useBurnNFT: burnMultipleNFTs and recordBurns, and handleConfirm of the page

Min(a, b) == IF a < b THEN a ELSE b

\* A partition that keeps only the full groups
ChunksFromFullOnly(items, i) ==
    [k \in 1..(Len(items) \div BURNS_PER_TX) |->
        SubSeq(items, BURNS_PER_TX * (k - 1) + 1, BURNS_PER_TX * k)]

\* Step 2 of burnMultipleNFTs: slices of BURNS_PER_TX items, in order
RECURSIVE ChunksFrom(_, _)
ChunksFrom(items, i) ==
    IF i > Len(items) THEN <<>>
    ELSE <<SubSeq(items, i, Min(i + BURNS_PER_TX - 1, Len(items)))>>
             \o ChunksFrom(items, i + BURNS_PER_TX)
Chunks(items) == ChunksFrom(items, 1)

MintNames == <<"A", "B", "C", "D", "E", "F", "G", "H">>
TargetNames == <<"U", "V", "W", "X", "Y", "Z", "P", "Q">>
FlowSigs == <<"T1", "T2", "T3", "T4">>
AttemptIds == <<"f1", "f2", "f3", "f4", "f5", "f6">>
FlowWallet == "W1"

Selection(n) == [i \in 1..n |-> Str(MintNames[i], FALSE)]
\* Upgrade selections handed over with a burn selection of n: the page's (one
\* distinct target per burn), one target short, a repeated target, and a target
\* that is also burned
TargetChoices(n) ==
    LET full == [i \in 1..n |-> Str(TargetNames[i], FALSE)]
    IN  {full}
        \cup (IF n >= 1 THEN {SubSeq(full, 1, n - 1)} ELSE {})
        \cup (IF n >= 2 THEN {[full EXCEPT ![2] = full[1]],
                              [full EXCEPT ![1] = Str(MintNames[n], FALSE)]}
              ELSE {})

Err(kind, burned, remaining) == [kind |-> kind, burned |-> burned, remaining |-> remaining]
NoErr == Err("none", 0, 0)
Result(ok, sigs, n, e) == [success |-> ok, signatures |-> sigs, burnedCount |-> n, error |-> e]
NoResult == Result(FALSE, <<>>, 0, Err("pending", 0, 0))

\* recordBurns handed the whole selection instead of the assets burned so far
RecordBodyWholeSelection(f) ==
    Body(FlowWallet,
         [i \in 1..Len(f.nftsToBurn) |->
             Burn(f.nftsToBurn[i],
                  IF f.nftsToBurn[i] \in DOMAIN f.burnToSignature
                      THEN f.burnToSignature[f.nftsToBurn[i]]
                  ELSE IF Len(f.signatures) > 0 THEN f.signatures[1] ELSE "",
                  NameOf(f.nftsToBurn[i]))],
         [i \in 1..Len(f.nftsToBurn) |->
             IF i <= Len(f.upgradeTargets)
                 THEN Upgrade(f.nftsToBurn[i], f.upgradeTargets[i], NameOf(f.upgradeTargets[i]))
             ELSE Upgrade(f.nftsToBurn[i], Empty, Empty)])

\* A request body that sends every burned asset with the first signature
RecordBodyFirstSignature(f) ==
    Body(FlowWallet,
         [i \in 1..Len(f.successfullyBurned) |->
             Burn(f.successfullyBurned[i],
                  IF Len(f.signatures) > 0 THEN f.signatures[1] ELSE "",
                  NameOf(f.successfullyBurned[i]))],
         [i \in 1..Len(f.successfullyBurned) |->
             IF i <= Len(f.upgradeTargets)
                 THEN Upgrade(f.successfullyBurned[i], f.upgradeTargets[i],
                              NameOf(f.upgradeTargets[i]))
             ELSE Upgrade(f.successfullyBurned[i], Empty, Empty)])

\* A request body that pairs the burned assets with the last targets selected
RecordBodyLastTargets(f) ==
    LET burned == f.successfullyBurned
        shift == Len(f.nftsToBurn) - Len(burned)
    IN  Body(FlowWallet,
             [i \in 1..Len(burned) |->
                 Burn(burned[i],
                      IF burned[i] \in DOMAIN f.burnToSignature
                          THEN f.burnToSignature[burned[i]]
                      ELSE IF Len(f.signatures) > 0 THEN f.signatures[1] ELSE "",
                      NameOf(burned[i]))],
             [i \in 1..Len(burned) |->
                 IF i + shift <= Len(f.upgradeTargets)
                     THEN Upgrade(burned[i], f.upgradeTargets[i + shift],
                                  NameOf(f.upgradeTargets[i + shift]))
                 ELSE Upgrade(burned[i], Empty, Empty)])

\* recordBurns, lines 320-331: the body of the recording request
RecordBody(f) ==
    LET burned == f.successfullyBurned
    IN  Body(FlowWallet,
             [i \in 1..Len(burned) |->
                 Burn(burned[i],
                      IF burned[i] \in DOMAIN f.burnToSignature
                          THEN f.burnToSignature[burned[i]]
                      ELSE IF Len(f.signatures) > 0 THEN f.signatures[1] ELSE "",
                      NameOf(burned[i]))],
             [i \in 1..Len(burned) |->
                 IF i <= Len(f.upgradeTargets)
                     THEN Upgrade(burned[i], f.upgradeTargets[i], NameOf(f.upgradeTargets[i]))
                 ELSE Upgrade(burned[i], Empty, Empty)])

\* The outer catch and the finally block of burnMultipleNFTs
Thrown(f, e) ==
    [f EXCEPT !.pc = "returned", !.burning = FALSE, !.error = e,
              !.result = Result(FALSE, <<>>, 0, e)]

\* Enter recordBurns
StartRecording(f, phase) ==
    [f EXCEPT !.pc = "record", !.phase = phase, !.retries = MAX_RETRIES,
              !.attempts = 0, !.lastStatus = 0]

\* After the batch loop: the finalization loop, which is empty without signatures
AfterBatches(f) ==
    IF Len(f.signatures) > 0 THEN [f EXCEPT !.pc = "finalize", !.fi = 1]
    ELSE StartRecording(f, "final")

\* Lines 468-491: what burnMultipleNFTs returns after the final recordBurns
AfterFinalRecording(f, recorded) ==
    LET g == [f EXCEPT !.pc = "returned", !.burning = FALSE, !.txSignatures = f.signatures]
        n == Len(f.successfullyBurned)
    IN  IF recorded THEN [g EXCEPT !.result = Result(TRUE, f.signatures, n, NoErr)]
        ELSE IF f.variant = "core"
            THEN [g EXCEPT !.error = Err("recording", n, 0),
                           !.result = Result(FALSE, f.signatures, n, Err("recording", n, 0))]
        ELSE [g EXCEPT !.error = Err("recording", n, 0),
                       !.result = Result(TRUE, f.signatures, n, Err("Recording failed", n, 0))]

\* Lines 448-451: the error thrown after a batch failed with earlier batches burned
PartialError(f) ==
    Err("partial", Len(f.successfullyBurned),
        Len(f.nftsToBurn) - Len(f.successfullyBurned))

\* recordBurns returns: to the batch failure handler, which ignores the value and
\* throws, or to the end of burnMultipleNFTs
RecordingReturns(f, recorded) ==
    LET g == [f EXCEPT !.recorded = IF recorded THEN "true" ELSE "false"]
    IN  IF f.phase = "partial" THEN Thrown(g, PartialError(g))
        ELSE AfterFinalRecording(g, recorded)

\* A retry loop that never uses up its budget
AfterFailureKeepsBudget(f) == f

\* recordBurns, lines 344-347: a failed attempt
AfterFailure(f) ==
    IF f.retries - 1 > 0 THEN [f EXCEPT !.retries = @ - 1]
    ELSE RecordingReturns([f EXCEPT !.retries = @ - 1], FALSE)

InitialFlow(variant, n, targets) ==
    [pc |-> "idle", variant |-> variant, nftsToBurn |-> Selection(n),
     upgradeTargets |-> targets, pi |-> 1, ci |-> 1, fi |-> 1,
     signatures |-> <<>>, successfullyBurned |-> <<>>, burnToSignature |-> <<>>,
     phase |-> "", retries |-> 0, attempts |-> 0, lastStatus |-> 0,
     burning |-> FALSE, error |-> NoErr, txSignatures |-> <<>>,
     result |-> NoResult, burnComplete |-> FALSE,
     recorded |-> "none", failedBatch |-> 0, reached |-> FALSE, retriedConflict |-> FALSE,
     missingAtCheck |-> 0, submitted |-> <<>>, confirmedPairs |-> {}, sent |-> {},
     waited |-> 0, timedOut |-> FALSE]

\* A prepare loop that takes every asset for present
fetchAssetV1Always(ledger, mint) == TRUE

\* fetchAssetV1(umi, mintPk) resolves: the asset exists on the ledger
fetchAssetV1(ledger, mint) == mint \in ledger

\* A batch loop that goes on to the next batch after a failure
AfterBatchFailureContinues(f) ==
    IF f.ci < Len(Chunks(f.nftsToBurn)) THEN [f EXCEPT !.ci = @ + 1]
    ELSE Thrown(f, Err("batch", 0, 0))

\* Lines 436-452: the batch failure handler
AfterBatchFailure(f) ==
    IF Len(f.successfullyBurned) > 0 THEN StartRecording(f, "partial")
    ELSE Thrown(f, Err("batch", 0, 0))

\* burnMultipleNFTs, lines 357-363: the wallet check, then setBurning(true)
Started(f, connected) ==
    IF ~connected
        THEN [f EXCEPT !.pc = "returned",
                 !.result = Result(FALSE, <<>>, 0, Err("Wallet not connected", 0, 0))]
    ELSE IF Len(f.nftsToBurn) = 0
        THEN AfterBatches([f EXCEPT !.burning = TRUE])
    ELSE [f EXCEPT !.pc = "prepare", !.burning = TRUE]

\* burnMultipleNFTs is called
FlowStart ==
    /\ flow.pc = "idle"
    /\ \E connected \in BOOLEAN : flow' = Started(flow, connected)
    /\ UNCHANGED <<store, mintIndex, upgIndex, indexesEnsured, tickets, chainTx, assets, req,
                 query, audit, burnt, page>>

\* Lines 378-398: fetchAssetV1 for the next selected asset
Prepare ==
    /\ flow.pc = "prepare"
    /\ LET f == [flow EXCEPT !.missingAtCheck =
                                 IF flow.nftsToBurn[flow.pi] \notin assets THEN flow.pi ELSE @]
       IN  flow' = IF ~fetchAssetV1(assets, flow.nftsToBurn[flow.pi])
                       THEN Thrown(f, Err("not found", flow.pi, 0))
                   ELSE IF flow.pi = Len(flow.nftsToBurn) THEN [f EXCEPT !.pc = "burn"]
                   ELSE [f EXCEPT !.pi = @ + 1]
    /\ UNCHANGED <<store, mintIndex, upgIndex, indexesEnsured, tickets, chainTx, assets, req,
                 query, audit, burnt, page>>

\* Lines 417-435: sendAndConfirm of the current batch reaches confirmed commitment
BatchConfirmed ==
    /\ flow.pc = "burn"
    /\ LET chunk == Chunks(flow.nftsToBurn)[flow.ci]
           sig == FlowSigs[flow.ci]
           f == [flow EXCEPT !.submitted = Append(@, flow.ci),
                             !.confirmedPairs = @ \cup {<<m, sig>> : m \in Range(chunk)},
                             !.signatures = Append(@, sig),
                             !.successfullyBurned = @ \o chunk,
                             !.burnToSignature = [m \in DOMAIN @ \cup Range(chunk) |->
                                                     IF m \in Range(chunk) THEN sig ELSE @[m]]]
       IN  /\ Range(chunk) \subseteq assets
           /\ chainTx' = chainTx \cup {Tx(sig, FALSE, FlowWallet, Range(chunk))}
           /\ assets' = assets \ Range(chunk)
           /\ flow' = IF flow.ci = Len(Chunks(flow.nftsToBurn)) THEN AfterBatches(f)
                      ELSE [f EXCEPT !.ci = @ + 1]
    /\ UNCHANGED <<store, mintIndex, upgIndex, indexesEnsured, tickets, req,
                 query, audit, burnt, page>>

\* Lines 436-452: sendAndConfirm throws.  The transaction was not sent or was
\* rejected, failed on-chain, or was confirmed after the client gave up waiting.
BatchFailed ==
    /\ flow.pc = "burn"
    /\ LET chunk == Chunks(flow.nftsToBurn)[flow.ci]
           sig == FlowSigs[flow.ci]
           f == [flow EXCEPT !.failedBatch = IF @ = 0 THEN flow.ci ELSE @,
                             !.submitted = Append(@, flow.ci)]
       IN  /\ \E how \in {"rejected", "failedOnChain", "landedLate"} :
                /\ chainTx' = IF how = "rejected" THEN chainTx
                              ELSE chainTx \cup {Tx(sig, how = "failedOnChain", FlowWallet,
                                                    Range(chunk))}
                /\ assets' = IF how = "landedLate" THEN assets \ Range(chunk) ELSE assets
           /\ flow' = AfterBatchFailure(f)
    /\ UNCHANGED <<store, mintIndex, upgIndex, indexesEnsured, tickets, req,
                 query, audit, burnt, page>>

\* A finalization loop that gives up when a wait fails
AfterFinalizationFatal(f, failed) ==
    IF failed THEN Thrown(f, Err("finalization", 0, 0))
    ELSE IF f.fi = Len(f.signatures) THEN StartRecording(f, "final")
    ELSE [f EXCEPT !.fi = @ + 1]

\* Lines 457-463: the try around confirmTransaction; the catch only logs, and the
\* loop goes on to the next signature or, after the last, to the recording
AfterFinalization(f, failed) ==
    IF f.fi = Len(f.signatures) THEN StartRecording(f, "final")
    ELSE [f EXCEPT !.fi = @ + 1]

\* Lines 455-463: confirmTransaction(sig, 'finalized') resolves, or it times out
\* or rejects.  The observer counts the waits and notes a failed one.
Finalize ==
    /\ flow.pc = "finalize"
    /\ \E failed \in BOOLEAN :
        flow' = AfterFinalization([flow EXCEPT !.waited = @ + 1,
                                               !.timedOut = @ \/ failed], failed)
    /\ UNCHANGED <<store, mintIndex, upgIndex, indexesEnsured, tickets, chainTx, assets, req,
                 query, audit, burnt, page>>

\* recordBurns, lines 333-349: one pass of the retry loop.  The request is lost
\* before it reaches the server, or it is served and the response arrives, or it
\* is served and the response is lost.
RecordAttempt ==
    /\ flow.pc = "record"
    /\ flow.attempts < AttemptCap
    /\ LET served == ServePost(store, tickets["ip1"], chainTx, RecordBody(flow),
                               AttemptIds[flow.attempts + 1])
           f == [flow EXCEPT !.attempts = @ + 1,
                             !.retriedConflict = @ \/ flow.lastStatus = 409,
                             !.sent = @ \cup {<<b.mintAddress, b.transactionSignature>> :
                                                 b \in Range(RecordBody(flow).burns)}]
       IN  \E how \in {"lost", "answered", "responseLost"} :
            /\ store' = IF how = "lost" THEN store ELSE served.store
            /\ tickets' = IF how = "lost" THEN tickets
                          ELSE [tickets EXCEPT !["ip1"] = served.tickets]
            /\ flow' =
                 LET g == [f EXCEPT !.lastStatus = IF how = "answered"
                                                       THEN served.resp.status ELSE 0,
                                    !.reached = @ \/ (how # "lost" /\ served.resp.status # 429)]
                 IN  IF how = "answered" /\ served.resp.status = 200
                         THEN RecordingReturns(g, TRUE)
                     ELSE AfterFailure(g)
    /\ UNCHANGED <<mintIndex, upgIndex, indexesEnsured, chainTx, assets, req,
                 query, audit, burnt, page>>

\* handleConfirm, lines 569-573
HandleConfirm ==
    /\ flow.pc = "returned"
    /\ flow' = [flow EXCEPT !.pc = "done", !.burnComplete = flow.result.success]
    /\ UNCHANGED <<store, mintIndex, upgIndex, indexesEnsured, tickets, chainTx, assets, req,
                 query, audit, burnt, page>>

\* Records written before this run: an earlier burn that claimed the first
\* target, or a submission that already recorded the first selected asset
Prior(m, target) ==
    [id |-> <<"prior", 1>>, mint |-> m, name |-> NameOf(m), burntBy |-> "W2",
     transactionSignature |-> "S2", hasUpg |-> Truthy(target),
     upgradeTargetMint |-> target, upgradeTargetName |-> target]
PriorStores ==
    {{}, {Prior(Str("H", FALSE), Str(TargetNames[1], FALSE))},
     {Prior(Str(MintNames[1], FALSE), Empty)}}

\* The page calls burnMultipleNFTs with a selection; the server is up, its
\* indexes in place
InitFlow ==
    /\ store \in PriorStores
    /\ mintIndex = TRUE
    /\ upgIndex = TRUE
    /\ indexesEnsured = TRUE
    /\ tickets \in [IPs -> {0, RATE_LIMIT_MAX}]
    /\ chainTx = {}
    /\ \E n \in 0..MaxSelect :
        /\ \E gone \in {{}} \cup {{Selection(n)[i]} : i \in 1..n} :
             assets = (Range(Selection(n)) \cup UNION {Range(t) : t \in TargetChoices(n)}) \ gone
        /\ \E variant \in {"core", "tokenMetadata"}, targets \in TargetChoices(n) :
             flow = InitialFlow(variant, n, targets)
    /\ req = [r \in Slots |-> IdleReq]
    /\ query = IdleQuery
    /\ audit = IdleAudit
    /\ burnt = <<>>
    /\ page = IdlePage

NextFlow ==
    FlowStart \/ Prepare \/ BatchConfirmed \/ BatchFailed \/ Finalize
        \/ RecordAttempt \/ HandleConfirm

SpecFlow == InitFlow /\ [][NextFlow]_vars

\* The event loop runs every continuation whose awaited call has settled
SpecFlowFair == SpecFlow /\ WF_vars(NextFlow)

----------------------------------------------------------------------------
\* GET /api/locked-mints as a process: one step per awaited call

QueryWallets == {"", "W1", "W2", "bad"}

\* A find that leaves the wallet out of its filter
LockedMintsOfAnyWallet(st, wallet) ==
    {d.upgradeTargetMint : d \in {e \in st : e.hasUpg /\ e.upgradeTargetMint # Empty}}

\* Lines 465-477: find({ burntBy: wallet, upgradeTargetMint: { $exists: true,
\* $ne: '' } }), projected to upgradeTargetMint, then map and filter(m => !!m)
LockedMintsOf(st, wallet) ==
    {m \in {d.upgradeTargetMint :
              d \in {e \in st : e.burntBy = wallet /\ e.hasUpg /\ e.upgradeTargetMint # Empty}} :
        Truthy(m)}

\* The query between requests.  seen is the observer's copy of the collection at
\* the moment find ran.
InitialQuery ==
    [pc |-> "start", wallet |-> "", resp |-> Pending, lockedMints |-> {}, seen |-> {}]

\* Lines 433-462: the origin guard, the wallet parameter, new PublicKey(wallet),
\* then getBurntNFTsCollection, which runs ensureIndexes
GetStart ==
    /\ query.pc = "start"
    /\ \E allowed \in BOOLEAN, wallet \in QueryWallets :
        query' = IF ~allowed THEN [query EXCEPT !.pc = "done", !.resp = Resp(403, "Forbidden")]
                 ELSE IF wallet = ""
                     THEN [query EXCEPT !.pc = "done",
                                        !.resp = Resp(400, "Missing wallet parameter")]
                 ELSE IF wallet \notin Wallets
                     THEN [query EXCEPT !.pc = "done", !.wallet = wallet,
                                        !.resp = Resp(400, "Invalid wallet address")]
                 ELSE [query EXCEPT !.wallet = wallet,
                                    !.pc = IF indexesEnsured THEN "find" ELSE "ei_drop"]
    /\ UNCHANGED <<store, mintIndex, upgIndex, indexesEnsured, tickets, chainTx, assets, req,
                 flow, audit, burnt, page>>

\* ensureIndexes, lines 47-49, on behalf of the query
GetEnsureDrop ==
    /\ query.pc = "ei_drop"
    /\ upgIndex' = FALSE
    /\ query' = [query EXCEPT !.pc = "ei_create"]
    /\ UNCHANGED <<store, mintIndex, indexesEnsured, tickets, chainTx, assets, req, flow,
                 audit, burnt, page>>

\* ensureIndexes, lines 51-69, on behalf of the query; a rejected createIndex
\* reaches the handler's catch, lines 480-486
GetEnsureCreate ==
    /\ query.pc = "ei_create"
    /\ mintIndex' = (mintIndex \/ NoDuplicateMints(store))
    /\ upgIndex' = NoDuplicateTargets(store)
    /\ LET ok == NoDuplicateMints(store) /\ NoDuplicateTargets(store)
       IN  /\ indexesEnsured' = (indexesEnsured \/ ok)
           /\ query' = IF ok THEN [query EXCEPT !.pc = "find"]
                       ELSE [query EXCEPT !.pc = "done",
                                          !.resp = Resp(500, "Internal server error")]
    /\ UNCHANGED <<store, tickets, chainTx, assets, req, flow, audit, burnt, page>>

\* Lines 465-479: the find and the response
GetFind ==
    /\ query.pc = "find"
    /\ query' = [query EXCEPT !.pc = "done", !.resp = Resp(200, ""),
                              !.lockedMints = LockedMintsOf(store, query.wallet),
                              !.seen = store]
    /\ UNCHANGED <<store, mintIndex, upgIndex, indexesEnsured, tickets, chainTx, assets, req,
                 flow, audit, burnt, page>>

GET == GetStart \/ GetEnsureDrop \/ GetEnsureCreate \/ GetFind

----------------------------------------------------------------------------
\* scripts/verify-burns.ts: the reconciliation auditor as a process, one step per
\* awaited call.  burnt is the chain as the RPC node shows it: the burned assets
\* of the collection in the order searchAssets lists them, each with the first
\* entry of what getSignaturesForAddress returns for it.

\* Times are counted in days around the cutoff: SINCE - 1 is the day before
SINCE == 2
\* burnedAt: null, and a history entry without a blockTime
Null == -1
\* searchAssets is called with limit: 1000; the model pages by PageLimit
PageLimit == 2
MaxBurnt == 3
\* The longest chain list that is audited twice in a row
MaxRerun == 2

Asset(id, sig, blockTime) == [id |-> id, signature |-> sig, blockTime |-> blockTime]

\* What the chain can hold for the i-th burned asset: no history at all, an entry
\* without a block time, a burn before the cutoff, one on the cutoff day that
\* shares its transaction with a stored record, and one after it
AssetKinds(i) ==
    {Asset(Str(MintNames[i], FALSE), sig[1], sig[2]) :
        sig \in {<<"", Null>>, <<"S2", Null>>, <<"S2", SINCE - 1>>, <<"S2", SINCE>>,
                 <<"S9", SINCE + 1>>}}
Ledgers(longest) ==
    UNION {{l \in [1..n -> UNION {AssetKinds(i) : i \in 1..n}] :
               \A i \in 1..n : l[i] \in AssetKinds(i)} : n \in 0..longest}

\* The page the node returns for searchAssets({ burnt: true, page, limit })
PageOf(ledger, pageNo) ==
    SubSeq(ledger, (pageNo - 1) * PageLimit + 1, Min(pageNo * PageLimit, Len(ledger)))

\* Lines 96-134: one asset's details from the answer to getSignaturesForAddress;
\* a call that fails, or that answers without a result, leaves both unknown
BurnDetails(asset, replied) ==
    IF replied
        THEN [mint |-> asset.id,
              burnedAt |-> IF asset.blockTime # Null /\ asset.blockTime # 0
                              THEN asset.blockTime ELSE Null,
              signature |-> asset.signature]
    ELSE [mint |-> asset.id, burnedAt |-> Null, signature |-> ""]

\* Lines 178-181
IsRecent(b) == b.burnedAt # Null /\ b.burnedAt >= SINCE
\* A filter that drops the burns whose time is unknown
IsUndatedNever(b) == FALSE
IsUndated(b) == b.burnedAt = Null
\* Line 196
burnsToCheck(withDetails) == SelectSeq(withDetails, IsRecent) \o SelectSeq(withDetails, IsUndated)

\* Lines 162-167: the two maps, as their key sets
byMint(records) == {rec.mint : rec \in {d \in records : Truthy(d.mint)}}
bySig(records) ==
    {rec.transactionSignature : rec \in {d \in records : d.transactionSignature # ""}}

\* A cross-reference that looks the signature up first
matchedBySigFirst(mints, sigs, b) ==
    IF b.signature # "" /\ b.signature \in sigs THEN "sig"
    ELSE IF b.mint \in mints THEN "mint"
    ELSE "none"

\* Lines 209-214
matchedBy(mints, sigs, b) ==
    IF b.mint \in mints THEN "mint"
    ELSE IF b.signature # "" /\ b.signature \in sigs THEN "sig"
    ELSE "none"
inDB(mints, sigs, b) == b.mint \in mints \/ (b.signature # "" /\ b.signature \in sigs)

\* Lines 207-222: the report lines in order, and the gap list
RECURSIVE Report(_, _, _, _)
Report(mints, sigs, check, i) ==
    IF i > Len(check) THEN [results |-> <<>>, missingFromDB |-> <<>>]
    ELSE LET rest == Report(mints, sigs, check, i + 1)
             b == check[i]
         IN  [results |-> <<[mint |-> b.mint, matchedBy |-> matchedBy(mints, sigs, b)]>>
                             \o rest.results,
              missingFromDB |-> IF inDB(mints, sigs, b) THEN rest.missingFromDB
                                ELSE <<b.mint>> \o rest.missingFromDB]

\* What a run leaves behind for the operator to compare with the next one
NoReport == [results |-> <<>>, missingFromDB |-> <<>>, answers |-> <<>>, crashed |-> FALSE]

\* A run at its start.  answers is the observer's log of how the node replied to
\* each call of the run; previous is the report of the run before.
InitialAudit ==
    [pc |-> "pages", run |-> 1, page |-> 1, allBurned |-> <<>>, i |-> 1, withDetails |-> <<>>,
     records |-> {}, results |-> <<>>, missingFromDB |-> <<>>, answers |-> <<>>,
     crashed |-> FALSE, previous |-> NoReport]

\* Line 86 to line 176: the list goes to fetchBurnDetails
AfterPages(a) == [a EXCEPT !.pc = IF Len(a.allBurned) = 0 THEN "mongo" ELSE "details", !.i = 1]

\* Lines 52-83: one turn of the page loop.  The node answers with a page, with an
\* error object, or the request itself fails and main rejects
FetchPage ==
    /\ audit.pc = "pages"
    /\ \E answer \in {"page", "error", "throws"} :
        LET a == [audit EXCEPT !.answers = Append(@, answer)]
            items == PageOf(burnt, audit.page)
        IN  audit' =
              IF answer = "throws" THEN [a EXCEPT !.pc = "done", !.crashed = TRUE]
              ELSE IF answer = "error" THEN AfterPages(a)
              ELSE IF Len(items) < PageLimit
                  THEN AfterPages([a EXCEPT !.allBurned = @ \o items])
              ELSE [a EXCEPT !.allBurned = @ \o items, !.page = @ + 1]
    /\ UNCHANGED <<store, mintIndex, upgIndex, indexesEnsured, tickets, chainTx, assets, req,
                 flow, query, burnt, page>>

\* Lines 98-134: one turn of the loop of fetchBurnDetails
FetchDetails ==
    /\ audit.pc = "details"
    /\ \E replied \in BOOLEAN :
        LET a == [audit EXCEPT
                    !.answers = Append(@, IF replied THEN "history" ELSE "fails"),
                    !.withDetails = Append(@, BurnDetails(audit.allBurned[audit.i], replied)),
                    !.i = @ + 1]
        IN  audit' = IF audit.i = Len(audit.allBurned) THEN [a EXCEPT !.pc = "mongo"] ELSE a
    /\ UNCHANGED <<store, mintIndex, upgIndex, indexesEnsured, tickets, chainTx, assets, req,
                 flow, query, burnt, page>>

\* A fetchMongoRecords that clears the collection after reading it
FetchMongoRecordsAndClear ==
    /\ audit.pc = "mongo"
    /\ audit' = [audit EXCEPT !.pc = "report", !.records = store]
    /\ store' = {}
    /\ UNCHANGED <<mintIndex, upgIndex, indexesEnsured, tickets, chainTx, assets, req,
                 flow, query, burnt, page>>

\* Lines 143-170: connect, find({}).toArray(), close; a failed connect rejects
FetchMongoRecords ==
    /\ audit.pc = "mongo"
    /\ \E connected \in BOOLEAN :
        audit' = IF connected
                     THEN [audit EXCEPT !.pc = "report", !.records = store,
                                        !.answers = Append(@, "records")]
                 ELSE [audit EXCEPT !.pc = "done", !.crashed = TRUE,
                                    !.answers = Append(@, "throws")]
    /\ UNCHANGED <<store, mintIndex, upgIndex, indexesEnsured, tickets, chainTx, assets, req,
                 flow, query, burnt, page>>

\* Lines 196-241: the cross-reference and the two reports
CrossReference ==
    /\ audit.pc = "report"
    /\ LET rep == Report(byMint(audit.records), bySig(audit.records),
                         burnsToCheck(audit.withDetails), 1)
       IN  audit' = [audit EXCEPT !.pc = "done", !.results = rep.results,
                                  !.missingFromDB = rep.missingFromDB]
    /\ UNCHANGED <<store, mintIndex, upgIndex, indexesEnsured, tickets, chainTx, assets, req,
                 flow, query, burnt, page>>

\* A second run that adds to the details the first one gathered
AuditAgainFromOldDetails ==
    /\ audit.pc = "done"
    /\ audit.run = 1
    /\ audit' = [InitialAudit EXCEPT
                   !.run = 2, !.withDetails = audit.withDetails,
                   !.previous = [results |-> audit.results,
                                 missingFromDB |-> audit.missingFromDB,
                                 answers |-> audit.answers, crashed |-> audit.crashed]]
    /\ UNCHANGED <<store, mintIndex, upgIndex, indexesEnsured, tickets, chainTx, assets, req,
                 flow, query, burnt, page>>

\* Lines 244-247: the script is started again; nothing is carried over
AuditAgain ==
    /\ audit.pc = "done"
    /\ audit.run = 1
    /\ audit' = [InitialAudit EXCEPT
                   !.run = 2,
                   !.previous = [results |-> audit.results,
                                 missingFromDB |-> audit.missingFromDB,
                                 answers |-> audit.answers, crashed |-> audit.crashed]]
    /\ UNCHANGED <<store, mintIndex, upgIndex, indexesEnsured, tickets, chainTx, assets, req,
                 flow, query, burnt, page>>

AuditRun == FetchPage \/ FetchDetails \/ FetchMongoRecords \/ CrossReference

----------------------------------------------------------------------------
\* The three of them against one database: a submission, a locked-mints query
\* and an auditor run, in a server process that has just started.  An earlier
\* process has set the indexes up and stored the records of an earlier burn.

StoreLedger == <<Asset(B, "S1", SINCE)>>

InitStore ==
    /\ store \in PriorStores
    /\ mintIndex = TRUE
    /\ upgIndex = TRUE
    /\ indexesEnsured = FALSE
    /\ tickets = [ip \in IPs |-> 0]
    /\ chainTx = PostChain
    /\ assets = {}
    /\ req = [r \in Slots |-> IdleReq]
    /\ flow = IdleFlow
    /\ query = InitialQuery
    /\ audit = InitialAudit
    /\ burnt = StoreLedger
    /\ page = IdlePage

FirstSlot == {"r1"}

NextStore == (\E r \in FirstSlot : POST(r)) \/ GET \/ AuditRun

SpecStore == InitStore /\ [][NextStore]_vars

\* The auditor alone, against a chain and a store that stay as they are
AuditAlone(longest) ==
    /\ store \in PriorStores
    /\ mintIndex = TRUE
    /\ upgIndex = TRUE
    /\ indexesEnsured = TRUE
    /\ tickets = [ip \in IPs |-> 0]
    /\ chainTx = {}
    /\ assets = {}
    /\ req = [r \in Slots |-> IdleReq]
    /\ flow = IdleFlow
    /\ query = IdleQuery
    /\ audit = InitialAudit
    /\ burnt \in Ledgers(longest)
    /\ page = IdlePage

\* One run
InitAudit == AuditAlone(MaxBurnt)

NextAudit == AuditRun

SpecAudit == InitAudit /\ [][NextAudit]_vars

\* Two runs in a row
InitAuditTwice == AuditAlone(MaxRerun)

NextAuditTwice == AuditRun \/ AuditAgain

SpecAuditTwice == InitAuditTwice /\ [][NextAuditTwice]_vars

----------------------------------------------------------------------------
\* The page component Home with the hook useNFTs, in front of useBurnNFT for
\* Core assets.  Its burnComplete state is the field burnComplete of flow.

MaxOwned == 4
MaxRuns == 1

\* The collection NFTs the wallet holds when it connects
Owned == {Str(MintNames[i], FALSE) : i \in 1..MaxOwned}

\* An earlier burn of this wallet that made the first of them an upgrade target
EarlierStores == {{}, {[Prior(Str("H", FALSE), Str(MintNames[1], FALSE)) EXCEPT !.burntBy = FlowWallet]}}

\* useState of the page and of useNFTs before the wallet connects.  The observer
\* notes in chosenLocked that a mint was locked when it joined the burn
\* selections, in overFilled that the burn selections grew beyond half of the
\* burnable NFTs, and counts the confirmed burns in runs.
InitialPage ==
    [connected |-> FALSE, step |-> 0, burnSelections |-> <<>>, upgradeSelections |-> <<>>,
     nfts |-> {}, lockedMints |-> {}, loading |-> FALSE, chosenLocked |-> FALSE,
     overFilled |-> FALSE, runs |-> 0]

\* prev.filter((n) => n.mint !== nft.mint)
Without(selections, nft) == SelectSeq(selections, LAMBDA n : n # nft)

\* nfts.filter((n) => !lockedMints.has(n.mint))
burnableNFTs(p) == p.nfts \ p.lockedMints

\* A limit of one burn per burnable NFT
maxBurnCountWhole(p) == Cardinality(burnableNFTs(p))

\* Math.floor(burnableNFTs.length / 2)
maxBurnCount(p) == Cardinality(burnableNFTs(p)) \div 2

\* The NFTs offered as upgrade targets
remainingNFTs(p) == {n \in p.nfts : n \notin Range(p.burnSelections) /\ n \notin p.lockedMints}

\* isFull of a card of the burn grid and of the upgrade grid
burnCardFull(p, nft) ==
    nft \in p.lockedMints
        \/ (nft \notin Range(p.burnSelections) /\ Len(p.burnSelections) >= maxBurnCount(p))
upgradeCardFull(p, nft) ==
    nft \notin Range(p.upgradeSelections)
        /\ Len(p.upgradeSelections) >= Len(p.burnSelections)

\* toggleBurnSelection
toggleBurnSelection(p, burning, nft) ==
    IF burning THEN p
    ELSE IF nft \in p.lockedMints THEN p
    ELSE IF nft \in Range(p.burnSelections) THEN [p EXCEPT !.burnSelections = Without(@, nft)]
    ELSE IF Len(p.burnSelections) >= maxBurnCount(p) THEN p
    ELSE [p EXCEPT !.burnSelections = Append(@, nft)]

\* toggleUpgradeSelection
toggleUpgradeSelection(p, burning, nft) ==
    IF burning THEN p
    ELSE IF nft \in Range(p.burnSelections) THEN p
    ELSE IF nft \in Range(p.upgradeSelections)
        THEN [p EXCEPT !.upgradeSelections = Without(@, nft)]
    ELSE IF Len(p.upgradeSelections) >= Len(p.burnSelections) THEN p
    ELSE [p EXCEPT !.upgradeSelections = Append(@, nft)]

\* handleBack
handleBack(p, burning, burnComplete) ==
    IF p.step = 2 THEN [p EXCEPT !.upgradeSelections = <<>>, !.step = 1]
    ELSE IF p.step = 3 /\ ~burning /\ ~burnComplete THEN [p EXCEPT !.step = 2]
    ELSE p

\* A disconnect branch that does not look at the burning flag
DisconnectedAnyTime(p, burning) == ~p.connected /\ p.step > 0

\* The condition of the disconnect branch of the effect on [connected, step, burning]
Disconnected(p, burning) == ~p.connected /\ p.step > 0 /\ ~burning

\* The effect's disconnect branch: back to the first step with nothing selected
Reset(p) == [p EXCEPT !.step = 0, !.burnSelections = <<>>, !.upgradeSelections = <<>>]

\* The page has rendered and its effects have run; handleConfirm is not about
\* to continue.  Click handlers run in such states only.
Rendered == flow.pc # "returned" /\ ~Disconnected(page, flow.burning)

\* The visitor confirms at most MaxRuns burns and clicks nothing after the last
Visiting == page.runs < MaxRuns

\* The wallet adapter reports a connection: the effect leaves step 0, and
\* useNFTs starts fetchNFTs
WalletConnects ==
    /\ flow.pc # "returned"
    /\ ~page.connected
    /\ page' = [page EXCEPT !.connected = TRUE, !.loading = TRUE,
                            !.step = IF @ = 0 THEN 1 ELSE @]
    /\ UNCHANGED <<store, mintIndex, upgIndex, indexesEnsured, tickets, chainTx, assets, req,
                 flow, query, audit, burnt>>

\* The wallet adapter reports a disconnect: fetchNFTs empties the list, and the
\* effect resets the page unless a burn is running
WalletDisconnects ==
    /\ flow.pc # "returned"
    /\ page.connected
    /\ LET p == [page EXCEPT !.connected = FALSE, !.nfts = {}]
       IN  IF Disconnected(p, flow.burning)
               THEN /\ page' = Reset(p)
                    /\ flow' = [flow EXCEPT !.burnComplete = FALSE]
           ELSE /\ page' = p
                /\ flow' = flow
    /\ UNCHANGED <<store, mintIndex, upgIndex, indexesEnsured, tickets, chainTx, assets, req,
                 query, audit, burnt>>

\* The effect runs again when the burning flag has changed
BurningEffect ==
    /\ flow.pc # "returned"
    /\ Disconnected(page, flow.burning)
    /\ page' = Reset(page)
    /\ flow' = [flow EXCEPT !.burnComplete = FALSE]
    /\ UNCHANGED <<store, mintIndex, upgIndex, indexesEnsured, tickets, chainTx, assets, req,
                 query, audit, burnt>>

\* fetchNFTs settles: the locked mints of the wallet if /api/locked-mints
\* answered, the wallet's NFTs if the chain lookup did
FetchSettles ==
    /\ page.loading
    /\ \E locksArrive, listArrives \in BOOLEAN :
        page' = [page EXCEPT !.loading = FALSE,
                             !.lockedMints = IF locksArrive
                                                 THEN LockedMintsOf(store, FlowWallet) ELSE @,
                             !.nfts = IF listArrives THEN Owned \cap assets ELSE @]
    /\ UNCHANGED <<store, mintIndex, upgIndex, indexesEnsured, tickets, chainTx, assets, req,
                 flow, query, audit, burnt>>

\* A card of the burn grid is clicked
ToggleBurn ==
    /\ Visiting
    /\ Rendered
    /\ page.step = 1
    /\ ~page.loading
    /\ \E nft \in page.nfts :
        /\ ~burnCardFull(page, nft)
        /\ LET p == toggleBurnSelection(page, flow.burning, nft)
           IN  page' = [p EXCEPT !.chosenLocked =
                            @ \/ (nft \in page.lockedMints
                                    /\ nft \in Range(p.burnSelections)
                                    /\ nft \notin Range(page.burnSelections)),
                                 !.overFilled =
                            @ \/ (Len(p.burnSelections) > Len(page.burnSelections)
                                    /\ 2 * Len(p.burnSelections)
                                           > Cardinality(page.nfts \ page.lockedMints))]
    /\ UNCHANGED <<store, mintIndex, upgIndex, indexesEnsured, tickets, chainTx, assets, req,
                 flow, query, audit, burnt>>

\* A card of the upgrade grid is clicked
ToggleUpgrade ==
    /\ Visiting
    /\ Rendered
    /\ page.step = 2
    /\ \E nft \in remainingNFTs(page) :
        /\ ~upgradeCardFull(page, nft)
        /\ page' = toggleUpgradeSelection(page, flow.burning, nft)
    /\ UNCHANGED <<store, mintIndex, upgIndex, indexesEnsured, tickets, chainTx, assets, req,
                 flow, query, audit, burnt>>

\* The button Burn, shown at step 1 once something is selected
BurnButton ==
    /\ Visiting
    /\ Rendered
    /\ page.step = 1
    /\ ~page.loading
    /\ page.nfts # {}
    /\ Len(page.burnSelections) # 0
    /\ page' = [page EXCEPT !.step = 2]
    /\ UNCHANGED <<store, mintIndex, upgIndex, indexesEnsured, tickets, chainTx, assets, req,
                 flow, query, audit, burnt>>

\* The button Upgrade, shown at step 2 when there is a target for every burn
UpgradeButton ==
    /\ Visiting
    /\ Rendered
    /\ page.step = 2
    /\ Len(page.upgradeSelections) = Len(page.burnSelections)
    /\ page' = [page EXCEPT !.step = 3]
    /\ UNCHANGED <<store, mintIndex, upgIndex, indexesEnsured, tickets, chainTx, assets, req,
                 flow, query, audit, burnt>>

\* The button Back of the review tab
BackButton ==
    /\ Visiting
    /\ Rendered
    /\ page.step = 3
    /\ ~flow.burnComplete
    /\ ~flow.burning
    /\ page' = handleBack(page, flow.burning, flow.burnComplete)
    /\ UNCHANGED <<store, mintIndex, upgIndex, indexesEnsured, tickets, chainTx, assets, req,
                 flow, query, audit, burnt>>

\* The button Confirm & Burn of the review tab, with window.confirm accepted:
\* handleConfirm calls burnMultipleNFTs(burnSelections, upgradeSelections)
ConfirmButton ==
    /\ Visiting
    /\ Rendered
    /\ page.step = 3
    /\ ~flow.burnComplete
    /\ ~flow.burning
    /\ page' = [page EXCEPT !.runs = @ + 1]
    /\ flow' = Started([InitialFlow(flow.variant, 0, <<>>) EXCEPT
                            !.nftsToBurn = page.burnSelections,
                            !.upgradeTargets = page.upgradeSelections],
                       page.connected)
    /\ UNCHANGED <<store, mintIndex, upgIndex, indexesEnsured, tickets, chainTx, assets, req,
                 query, audit, burnt>>

\* The last of the wallet's NFTs leaves it outside the page: it is transferred
\* or burned elsewhere, and fetchAssetV1 will not find it under this owner's
\* selection
AssetLeaves ==
    /\ Str(MintNames[MaxOwned], FALSE) \in assets
    /\ assets' = assets \ {Str(MintNames[MaxOwned], FALSE)}
    /\ UNCHANGED <<store, mintIndex, upgIndex, indexesEnsured, tickets, chainTx, req,
                 flow, query, audit, burnt, page>>

\* The steps of a burn run after its start, and handleConfirm's continuation
RunSteps ==
    Prepare \/ BatchConfirmed \/ BatchFailed \/ Finalize \/ RecordAttempt \/ HandleConfirm

\* A visitor whose wallet holds MaxOwned NFTs of the collection opens the page
InitPage ==
    /\ store \in EarlierStores
    /\ mintIndex = TRUE
    /\ upgIndex = TRUE
    /\ indexesEnsured = TRUE
    /\ tickets = [ip \in IPs |-> 0]
    /\ chainTx = {}
    /\ assets = Owned
    /\ req = [r \in Slots |-> IdleReq]
    /\ flow = InitialFlow("core", 0, <<>>)
    /\ query = IdleQuery
    /\ audit = IdleAudit
    /\ burnt = <<>>
    /\ page = InitialPage

NextPage ==
    WalletConnects \/ WalletDisconnects \/ BurningEffect \/ FetchSettles
        \/ ToggleBurn \/ ToggleUpgrade \/ BurnButton \/ UpgradeButton
        \/ BackButton \/ ConfirmButton \/ AssetLeaves \/ RunSteps

SpecPage == InitPage /\ [][NextPage]_vars

\* The event loop runs every continuation whose awaited call has settled;
\* nothing obliges the visitor or the wallet to act
SpecPageFair == SpecPage /\ WF_vars(RunSteps)

----------------------------------------------------------------------------
\* Properties of the submission endpoint

RecordsOf(r) == {d \in store : d.id[1] = r}
Finished(r) == req[r].pc = "done"

\* C1: after any interleaving of submission requests no two stored records share
\* a mint and no two stored records share a non-empty upgradeTargetMint.
C1_Uniqueness ==
    /\ \A d, e \in store : d.mint = e.mint => d = e
    /\ \A d, e \in store :
        (d.hasUpg /\ e.hasUpg /\ Truthy(d.upgradeTargetMint)
            /\ d.upgradeTargetMint = e.upgradeTargetMint) => d = e

\* C2: whenever the insert step answers 409 'Some NFTs were already recorded',
\* none of that request's records is in the store.
C2_InsertAllOrNothing ==
    \A r \in Slots :
        (Finished(r) /\ req[r].resp = Resp(409, "Some NFTs were already recorded"))
            => RecordsOf(r) = {}

\* C9: a submission that passes validation and names an upgrade target that a
\* stored record already claims is answered 409 by the store pre-check and adds
\* no record.
C9_ClaimExclusivity ==
    \A r \in Slots :
        (Finished(r) /\ req[r].claimedAtParse) =>
            /\ req[r].resp \in {Resp(409, "Already recorded"),
                                Resp(409, "Upgrade targets already claimed")}
            /\ RecordsOf(r) = {}

C9_Witness ==
    \E r \in Slots :
        /\ Finished(r) /\ req[r].claimedAtParse
        /\ req[r].resp = Resp(409, "Upgrade targets already claimed")
        /\ \E d \in store : d.id[1] # r /\ d.hasUpg

\* C10 as stated: a submission naming an upgrade target that it also burns is
\* answered 400 before any chain call and before any store call.
C10_NoCallBeforeReject ==
    \A r \in Slots :
        (Finished(r) /\ req[r].selfClaim) =>
            req[r].resp.status = 400 /\ req[r].chainCalls = 0 /\ req[r].storeCalls = {}

\* C10 amended: a submission naming an upgrade target that it also burns is
\* answered 400 before any chain call and before any query or insert on the
\* burn-record collection (the rate-limit collection has been called by then, and
\* the index setup may have run).
C10_NoBurnStoreCallBeforeReject ==
    \A r \in Slots :
        (Finished(r) /\ req[r].selfClaim) =>
            /\ req[r].resp.status = 400
            /\ req[r].chainCalls = 0
            /\ "burnt_nfts" \notin req[r].storeCalls
            /\ RecordsOf(r) = {}

C10_Witness ==
    \E r \in Slots :
        /\ Finished(r) /\ req[r].selfClaim
        /\ req[r].resp = Resp(400, "An upgrade target cannot also be a burned NFT")
        /\ "rate_limits" \in req[r].storeCalls

\* What an observer of the ledger says of one burn entry: its transaction exists,
\* did not fail, was paid by the wallet and names the mint
BurnVerified(chain, wallet, burn) ==
    \E tx \in chain :
        /\ tx.sig = burn.transactionSignature
        /\ ~tx.err
        /\ tx.feePayer = wallet
        /\ burn.mintAddress \in tx.keys

\* C11: every stored record has a transaction that was found, did not fail, was
\* paid by the record's wallet and names the record's mint; and a request with a
\* burn that fails one of these checks is rejected and leaves no record.
C11_VerificationGate ==
    /\ \A d \in store :
        BurnVerified(chainTx, d.burntBy,
                     Burn(d.mint, d.transactionSignature, d.name))
    /\ \A r \in Slots :
        (/\ Finished(r)
         /\ \E i \in 1..Len(req[r].body.burns) :
              ~BurnVerified(chainTx, req[r].body.walletAddress, req[r].body.burns[i]))
            => req[r].resp.status # 200 /\ RecordsOf(r) = {}

C11_Witness ==
    /\ store # {}
    /\ \E r \in Slots :
        /\ Finished(r)
        /\ req[r].resp = Resp(400, "Transaction not signed by claimed wallet")
        /\ req[r].chainCalls > 0
        /\ \E i \in 1..Len(req[r].body.burns) :
              ~BurnVerified(chainTx, req[r].body.walletAddress, req[r].body.burns[i])

\* C12: a request naming a mint that was recorded when the request was read is
\* answered 409 'Already recorded', the error lists recorded mints of the request
\* and among them every one recorded at that time, no insert is attempted and
\* the request leaves no record.
C12_ResubmissionConflict ==
    \A r \in Slots :
        (Finished(r) /\ req[r].recordedAtParse # {})
            => /\ req[r].resp = Resp(409, "Already recorded")
               /\ req[r].recordedAtParse \subseteq req[r].listed
               /\ req[r].listed \subseteq AlreadyRecorded(store, req[r].body)
               /\ "insertMany" \notin req[r].storeCalls
               /\ RecordsOf(r) = {}

C12_Witness ==
    \E r \in Slots :
        /\ Finished(r)
        /\ req[r].recordedAtParse # {}
        /\ req[r].listed = req[r].recordedAtParse
        /\ req[r].resp = Resp(409, "Already recorded")

C19_RateLimit ==
    \A ip \in IPs : tickets[ip] <= RATE_LIMIT_MAX

\* C20: a request whose rate-limit check failed (counting, inserting, or reaching
\* the collection) is not refused for rate limiting: it goes on to the parsing
\* and validation steps.
C20_RateLimitBestEffort ==
    \A r \in Slots :
        req[r].rlFailed
            => /\ req[r].resp.status # 429
               /\ req[r].pc \in {"parse", "ei_drop", "ei_create", "find_mints", "find_upg",
                                 "verify", "insert", "done"}
               /\ req[r].pc \in {"ei_drop", "ei_create"} => req[r].ret = "find_mints"

C20_Witness ==
    \E r \in Slots :
        /\ req[r].rlFailed
        /\ Finished(r)
        /\ req[r].resp = Resp(200, "")
        /\ tickets[req[r].ip] = RATE_LIMIT_MAX - 1

\* C21 as stated: a request refused with 403 or 429 has made no chain call and
\* has not touched the burn-record collection, its indexes included.
C21_NoStoreInteractionBeforeRefusal ==
    \A r \in Slots :
        (Finished(r) /\ req[r].resp.status \in {403, 429})
            => /\ req[r].chainCalls = 0
               /\ req[r].storeCalls \cap {"burnt_nfts", "insertMany", "indexes"} = {}

\* C21 amended: a request refused with 403 has called neither chain nor store; a
\* request refused with 429 has made no chain call and no query or insert on
\* the burn-record collection, and leaves no record.
C21_NoRecordAccessBeforeRefusal ==
    \A r \in Slots :
        (Finished(r) /\ req[r].resp.status \in {403, 429})
            => /\ req[r].chainCalls = 0
               /\ req[r].storeCalls \cap {"burnt_nfts", "insertMany"} = {}
               /\ RecordsOf(r) = {}
               /\ req[r].resp.status = 403 => req[r].storeCalls = {}

C21_Witness ==
    \E r \in Slots :
        /\ Finished(r)
        /\ req[r].resp = Resp(429, "Too many requests")
        /\ req[r].storeCalls = {"indexes", "rate_limits"}

ValidationErrors ==
    {Resp(400, e) : e \in {"Missing required fields", "Invalid wallet address",
                           "Invalid burn entry", "Invalid mint address",
                           "Duplicate mint addresses in burn list",
                           "Upgrades array must match burns array length",
                           "An upgrade target cannot also be a burned NFT",
                           "Duplicate upgrade targets in request"}}

\* C22 as stated: a malformed request is answered 400 and has written neither a
\* burn record nor a rate-limit ticket, and has made no chain call.
C22_NoSideEffects ==
    \A r \in Slots :
        (Finished(r) /\ req[r].malformed)
            => /\ req[r].resp \in ValidationErrors
               /\ ~req[r].ticket
               /\ req[r].chainCalls = 0
               /\ RecordsOf(r) = {}

\* C22 amended: a malformed request is answered 400 with a validation error, has
\* made no chain call, has called no collection but the rate-limit one (and the
\* index setup), and leaves no burn record.
C22_NoBurnRecordSideEffects ==
    \A r \in Slots :
        (Finished(r) /\ req[r].malformed)
            => /\ req[r].resp \in ValidationErrors
               /\ req[r].chainCalls = 0
               /\ req[r].storeCalls \subseteq {"indexes", "rate_limits"}
               /\ RecordsOf(r) = {}

C22_Witness ==
    \E r \in Slots :
        /\ Finished(r) /\ req[r].malformed /\ req[r].ticket
        /\ req[r].resp = Resp(400, "Duplicate upgrade targets in request")
        /\ tickets[req[r].ip] = RATE_LIMIT_MAX

\* C23: among the records one successful submission stored, no two have the same
\* upgradeTargetMint and no upgradeTargetMint is the mint of one of them.
C23_StoredTargetsDistinct ==
    \A r \in Slots :
        (Finished(r) /\ req[r].resp = Resp(200, ""))
            => \A d, e \in RecordsOf(r) :
                 d.hasUpg =>
                    /\ d.upgradeTargetMint # e.mint
                    /\ (e.hasUpg /\ e.upgradeTargetMint = d.upgradeTargetMint) => d = e

----------------------------------------------------------------------------
\* Properties of the burn run (SpecFlow, SpecFlowFair)

Returned == flow.pc \in {"returned", "done"}
HasRecord(m) == \E d \in store : d.mint = m
RunMints == Range(flow.nftsToBurn) \cup Range(flow.upgradeTargets)
\* The selection is one the page can hand over: at most one target per burn, no
\* target twice, no target among the burns
PageSelection ==
    /\ Len(flow.upgradeTargets) <= Len(flow.nftsToBurn)
    /\ \A i, k \in 1..Len(flow.upgradeTargets) :
        flow.upgradeTargets[i] = flow.upgradeTargets[k] => i = k
    /\ Range(flow.upgradeTargets) \cap Range(flow.nftsToBurn) = {}
\* No record written before the run names one of the run's mints
NotPreviouslyRecorded ==
    \A d \in store : d.id[1] = "prior" =>
        d.mint \notin RunMints /\ d.upgradeTargetMint \notin RunMints

\* C3: When batch j > 1 of a run fails after batches 1..j-1 were confirmed, a
\* recording request of the run reached the store, the selection is one the page
\* hands over and none of the run's mints was recorded before, then once the run
\* has returned the store holds a record for exactly the mints of batches 1..j-1
\* and none for a mint of batch j or later.
C3_PartialFailureDurability ==
    (/\ Returned
     /\ flow.failedBatch > 1
     /\ flow.reached
     /\ PageSelection
     /\ NotPreviouslyRecorded)
        => \A i \in 1..Len(flow.nftsToBurn) :
              HasRecord(flow.nftsToBurn[i]) <=> i <= (flow.failedBatch - 1) * BURNS_PER_TX

C3_Witness ==
    /\ Returned
    /\ flow.failedBatch = 2
    /\ flow.reached
    /\ PageSelection
    /\ NotPreviouslyRecorded
    /\ Len(flow.upgradeTargets) = Len(flow.nftsToBurn)
    /\ Len(flow.nftsToBurn) > BURNS_PER_TX
    /\ \A i \in 1..BURNS_PER_TX : HasRecord(flow.nftsToBurn[i])

\* C4: recordBurns makes no further persistence attempt once the endpoint has
\* answered 409.
C4_NoRetryAfterConflict == ~flow.retriedConflict

\* C5: recordBurns makes at most MAX_RETRIES attempts; it is still trying only
\* while fewer than MAX_RETRIES attempts have been made; it returns true only on
\* an attempt answered with success and false only after the MAX_RETRIES-th failed
\* attempt; and every invocation returns.
C5_AttemptsBounded ==
    /\ flow.attempts <= MAX_RETRIES
    /\ flow.pc = "record" => flow.attempts < MAX_RETRIES
    /\ flow.recorded = "true" => flow.lastStatus = 200
    /\ flow.recorded = "false" => flow.attempts = MAX_RETRIES /\ flow.lastStatus # 200
C5_BoundedRetryTerminates ==
    /\ []C5_AttemptsBounded
    /\ (flow.pc = "record") ~> (flow.recorded # "none")

C5_Witness == flow.recorded = "true" /\ flow.attempts = MAX_RETRIES /\ flow.lastStatus = 200

\* C6: If every batch was confirmed and recordBurns returned false, the result has
\* success = false with an error, carries the signatures of the confirmed batches
\* and the burned count, and handleConfirm does not set burnComplete.
C6_RecordingFailureReported ==
    (Returned /\ flow.phase = "final" /\ Len(flow.signatures) > 0 /\ flow.recorded = "false")
        => /\ ~flow.result.success
           /\ flow.result.error.kind # "none"
           /\ flow.result.signatures = flow.signatures
           /\ flow.result.burnedCount = Len(flow.successfullyBurned)
           /\ ~flow.burnComplete

\* C7: The error surfaced after a partial failure reports as "burned and
\* recorded" the number of the run's mints that have a record in the store, and
\* as remaining the rest of the selection.
C7_PartialErrorCountsExact ==
    (Returned /\ flow.result.error.kind = "partial")
        => LET k == Cardinality({i \in 1..Len(flow.nftsToBurn) : HasRecord(flow.nftsToBurn[i])})
           IN  /\ flow.result.error.burned = k
               /\ flow.result.error.remaining = Len(flow.nftsToBurn) - k

\* C8: After a partial failure the result returned to the caller carries the
\* signatures of the confirmed batches and the number of assets burned.
C8_PartialOutcomeCarriesSignatures ==
    (Returned /\ flow.failedBatch > 1)
        => /\ flow.result.signatures = flow.signatures
           /\ flow.result.burnedCount = Len(flow.successfullyBurned)

RECURSIVE Concat(_)
Concat(groups) == IF groups = <<>> THEN <<>> ELSE Head(groups) \o Concat(Tail(groups))

\* C14: partitioning a list of N burn targets with capacity BURNS_PER_TX gives
\* ceil(N / BURNS_PER_TX) groups, each of full size except possibly the last, and
\* the groups concatenated in order are the list.
C14_Batching ==
    LET items == flow.nftsToBurn
        groups == Chunks(items)
    IN  /\ Len(groups) = (Len(items) + BURNS_PER_TX - 1) \div BURNS_PER_TX
        /\ \A i \in 1..Len(groups) :
            IF i < Len(groups) THEN Len(groups[i]) = BURNS_PER_TX
            ELSE Len(groups[i]) \in 1..BURNS_PER_TX
        /\ Concat(groups) = items

C14_Witness ==
    /\ flow.pc = "burn"
    /\ flow.ci = Len(Chunks(flow.nftsToBurn))
    /\ flow.ci > 2
    /\ Len(flow.nftsToBurn) % BURNS_PER_TX # 0

\* C15: a run started with an empty list of burn targets makes no recording call
\* and submits no batch, and it returns a failure with an error.
C15_EmptyInputRejected ==
    (Len(flow.nftsToBurn) = 0 /\ flow.pc # "idle")
        => /\ flow.attempts = 0
           /\ flow.submitted = <<>>
           /\ Returned => ~flow.result.success /\ flow.result.error.kind # "none"

\* C16: if a selected asset is missing when the prepare loop checks it, the run
\* returns at once with a failure naming that asset, no transaction of the run
\* names the asset, and the run sends no recording request and leaves no record.
C16_AssetExistenceCheck ==
    flow.missingAtCheck # 0
        => LET m == flow.nftsToBurn[flow.missingAtCheck]
           IN  /\ Returned
               /\ ~flow.result.success
               /\ flow.result.error = Err("not found", flow.missingAtCheck, 0)
               /\ flow.submitted = <<>>
               /\ \A tx \in chainTx : m \notin tx.keys
               /\ flow.attempts = 0
               /\ \A d \in store : d.id[1] # "prior" => d.mint # m

C16_Witness ==
    /\ flow.missingAtCheck = 2
    /\ flow.pc = "done"
    /\ flow.result.error = Err("not found", 2, 0)
    /\ ~flow.burnComplete

\* C17: batches are submitted one at a time in selection order 1, 2, 3, ...; a
\* batch is submitted only when every earlier one was confirmed; and after a
\* batch failed no further batch is submitted.
C17_SequentialBatches ==
    /\ flow.submitted = [i \in 1..Len(flow.submitted) |-> i]
    /\ Len(flow.signatures) >= Len(flow.submitted) - 1
    /\ flow.failedBatch # 0
        => /\ Len(flow.submitted) = flow.failedBatch
           /\ Len(flow.signatures) = flow.failedBatch - 1
           /\ flow.pc # "burn"

C17_Witness ==
    /\ flow.failedBatch = 2
    /\ flow.submitted = <<1, 2>>
    /\ Len(Chunks(flow.nftsToBurn)) = 3
    /\ Returned

\* C18: every mint the run sends to the recording endpoint is a mint of a batch
\* that was confirmed earlier in the run, and it is sent with that batch's
\* signature.
C18_RecordAfterConfirmation == flow.sent \subseteq flow.confirmedPairs

C18_Witness ==
    /\ flow.failedBatch = 3
    /\ Cardinality(flow.sent) = 2 * BURNS_PER_TX
    /\ Cardinality({p[2] : p \in flow.sent}) = 2
    /\ Returned

----------------------------------------------------------------------------
\* Properties of the locked-mints query and of the stored records (SpecStore)

\* C24: a locked-mints query for wallet W that is answered returns exactly the
\* non-empty upgradeTargetMint values of the records that were stored with
\* burntBy W when it read the collection, and nothing of another wallet's
\* records.
C24_LockedMintsExact ==
    (query.pc = "done" /\ query.resp.status = 200) =>
        /\ \A d \in query.seen :
             (d.burntBy = query.wallet /\ d.hasUpg /\ d.upgradeTargetMint # Empty)
                 => d.upgradeTargetMint \in query.lockedMints
        /\ \A m \in query.lockedMints :
             /\ m # Empty
             /\ \E d \in query.seen :
                  d.burntBy = query.wallet /\ d.hasUpg /\ d.upgradeTargetMint = m
             /\ \E d \in store :
                  d.burntBy = query.wallet /\ d.hasUpg /\ d.upgradeTargetMint = m

\* A query answered with a claimed mint while another wallet's record holds a
\* claim too
C24_Witness ==
    /\ query.pc = "done"
    /\ query.resp.status = 200
    /\ query.lockedMints # {}
    /\ \E d \in query.seen : d.burntBy # query.wallet /\ d.hasUpg

\* C25: stored burn records are append-only: no step of the submission endpoint,
\* of the locked-mints query or of the auditor removes or changes a stored
\* record; a record that is stored is stored, identical, in the next state.
C25_AppendOnly == [][\A d \in store : d \in store']_vars

\* A record of an earlier burn next to a newly inserted one, after the query
\* and the auditor have both read the collection
C25_Witness ==
    /\ \E d \in store : d.id[1] = "prior"
    /\ \E d \in store : d.id[1] = "r1"
    /\ query.pc = "done" /\ query.resp.status = 200
    /\ audit.pc = "done" /\ ~audit.crashed

----------------------------------------------------------------------------
\* Properties of the reconciliation auditor (SpecAudit, SpecAuditTwice)

\* A run that reached its report
Reported == audit.pc = "done" /\ ~audit.crashed
\* What the run found out about a listed asset
DetailsOf(m) == CHOOSE b \in Range(audit.withDetails) : b.mint = m
StoredMint(m) == \E d \in store : d.mint = m
StoredSig(sig) == sig # "" /\ \E d \in store : d.transactionSignature = sig

PageAnswers == Cardinality({k \in 1..Len(audit.answers) : audit.answers[k] \in {"page", "error"}})
LookupFailed(i) == audit.answers[PageAnswers + i] = "fails"
Checked == {audit.results[k].mint : k \in 1..Len(audit.results)}

C28_ListComplete ==
    (audit.pc \in {"details", "mongo", "report"} \/ Reported) => audit.allBurned = burnt

\* C29: the auditor is read-only: no step of a run, and so no complete run,
\* changes the stored records, the indexes, the rate-limit tickets or the chain.
C29_AuditorReadOnly ==
    [][/\ store' = store
       /\ mintIndex' = mintIndex /\ upgIndex' = upgIndex
       /\ tickets' = tickets
       /\ burnt' = burnt /\ chainTx' = chainTx /\ assets' = assets]_vars

\* A complete run over a collection that holds a record, which the run has read
C29_Witness ==
    /\ Reported
    /\ audit.records = store
    /\ store # {}
    /\ Len(audit.results) > 0

----------------------------------------------------------------------------
\* Further properties of the burn run (SpecFlow, SpecFlowFair)

\* C31: a finalization wait that times out or fails is not fatal: a run in which
\* one did has still waited once for every confirmed signature, has still sent
\* every burned asset to the recording endpoint, and returns what the outcome of
\* the recording alone decides, with every signature and the full count.
C31_FinalizationNonFatal ==
    (Returned /\ flow.timedOut) =>
        /\ flow.waited = Len(flow.signatures)
        /\ flow.phase = "final"
        /\ flow.attempts > 0
        /\ {p[1] : p \in flow.sent} = Range(flow.nftsToBurn)
        /\ flow.recorded \in {"true", "false"}
        /\ flow.result.signatures = flow.signatures
        /\ flow.result.burnedCount = Len(flow.nftsToBurn)
        /\ flow.result.error.kind \in {"none", "recording", "Recording failed"}
        /\ flow.recorded = "true" => flow.result = Result(TRUE, flow.signatures,
                                                         Len(flow.nftsToBurn), NoErr)

\* A run of three batches whose first finalization wait failed and that was
\* recorded
C31_Witness ==
    /\ Returned
    /\ flow.timedOut
    /\ Len(flow.signatures) = 3
    /\ flow.result.success
    /\ flow.recorded = "true"

\* The records the run's recording requests left in the store
RunRecords == {d \in store : d.id[1] \in Range(AttemptIds)}

\* C32: every record a run produces is the record of a burned asset at some
\* position i of the selection and carries the upgrade target at position i of
\* the upgrade selection (none if there is no such position); no record carries
\* a target selected for an asset that was not burned.
C32_ClaimPairing ==
    \A d \in RunRecords :
        \E i \in 1..Len(flow.successfullyBurned) :
            /\ d.mint = flow.nftsToBurn[i]
            /\ flow.successfullyBurned[i] = flow.nftsToBurn[i]
            /\ IF i <= Len(flow.upgradeTargets)
                   THEN d.hasUpg /\ d.upgradeTargetMint = flow.upgradeTargets[i]
               ELSE ~d.hasUpg

\* A run whose second batch failed and whose first batch is recorded with its
\* targets
C32_Witness ==
    /\ Returned
    /\ flow.failedBatch = 2
    /\ Len(flow.nftsToBurn) > 2 * BURNS_PER_TX
    /\ Cardinality(RunRecords) = BURNS_PER_TX
    /\ \A d \in RunRecords : d.hasUpg

----------------------------------------------------------------------------
\* Further properties of the submission endpoint (SpecServer)

\* C33: index setup runs once per process: of the requests a server process
\* handles, overlapping ones included, at most one executes the drop/create
\* sequence of ensureIndexes.
C33_IndexSetupOnce ==
    Cardinality({r \in Slots : "indexes" \in req[r].storeCalls}) <= 1

----------------------------------------------------------------------------
\* Further properties of the stored records (SpecStore)

\* C34: the unique constraint on upgradeTargetMint is in force whenever an insert
\* of burn records is about to execute, and no two stored records of different
\* submissions carry the same upgrade target.
C34_ConstraintInForceAtInsert ==
    /\ \A r \in Slots : req[r].pc = "insert" => upgIndex
    /\ \A d, e \in store :
         (d.id[1] # e.id[1] /\ d.hasUpg /\ e.hasUpg) => d.upgradeTargetMint # e.upgradeTargetMint

----------------------------------------------------------------------------
\* Further properties of the burn run (SpecFlow, SpecFlowFair), continued

\* C35: whenever the run reports that the remaining assets were not burned, or a
\* plain transaction failure, every selected asset outside the accumulated
\* success list still exists on-chain.
C35_ReportedUnburnedExist ==
    (Returned /\ flow.result.error.kind \in {"partial", "batch"}) =>
        \A m \in Range(flow.nftsToBurn) \ Range(flow.successfullyBurned) : m \in assets

\* C36: the recorder's outcome agrees with the store: recordBurns returns true
\* only if every burned mint it was given has a record, and false only if no
\* record of this run was stored.
C36_OutcomeAgreesWithStore ==
    /\ flow.recorded = "true" => \A m \in Range(flow.successfullyBurned) : HasRecord(m)
    /\ flow.recorded = "false" => RunRecords = {}

----------------------------------------------------------------------------
\* Further properties of the reconciliation auditor (SpecAudit)

\* C37: every burn the auditor checks whose own mint has no stored record is in
\* the gap list, whatever record carries its signature.
C37_UnrecordedMintInGap ==
    Reported =>
        \A m \in Checked : ~StoredMint(m) => m \in Range(audit.missingFromDB)

----------------------------------------------------------------------------
\* Further properties of the submission endpoint (SpecServer), continued

\* C38: a locked mint is never burn-recorded: no stored record's mint is the
\* upgrade target of another stored record.
C38_LockedMintNeverRecorded ==
    \A d, e \in store : (d # e /\ e.hasUpg) => d.mint # e.upgradeTargetMint

----------------------------------------------------------------------------
\* Properties of the page's selections

NoRepeat(selections) == Cardinality(Range(selections)) = Len(selections)

\* What the claim says of the selections apart from the limit on the burns
SelectionsConsistent ==
    /\ Range(page.upgradeSelections) \cap Range(page.burnSelections) = {}
    /\ NoRepeat(page.upgradeSelections)
    /\ Len(page.upgradeSelections) <= Len(page.burnSelections)
    /\ ~page.chosenLocked
    /\ flow.burning => /\ page.burnSelections = flow.nftsToBurn
                       /\ page.upgradeSelections = flow.upgradeTargets
                       /\ page.step = 3
    /\ flow.pc # "idle" => Len(flow.nftsToBurn) = Len(flow.upgradeTargets)

\* C39 as stated: in every reachable state of the page the upgrade selections
\* are disjoint from the burn selections, repeat no mint and number at most the
\* burn selections; the burn selections number at most half of the NFTs that are
\* burnable in that state, rounded down, and none was locked when selected;
\* neither selection changes while a burn runs; and a burn is started only from
\* step 3 with as many upgrade selections as burn selections.
C39_SelectionWithinLiveLimit ==
    /\ SelectionsConsistent
    /\ Len(page.burnSelections) <= Cardinality(page.nfts \ page.lockedMints) \div 2

\* C39, amended: the same, with the limit on the burn selections taken where the
\* code takes it, when a mint joins them: the burn selections never grow beyond
\* half of the NFTs that are burnable at that moment, rounded down.
C39_SelectionWithinLimitWhenSelected ==
    /\ SelectionsConsistent
    /\ ~page.overFilled

\* A burn of two NFTs with two upgrade targets is running, and the wallet has
\* disconnected under it
C39_Witness ==
    /\ flow.burning
    /\ ~page.connected
    /\ Len(page.burnSelections) = 2
    /\ Len(page.upgradeSelections) = 2
    /\ page.step = 3

\* C40: every call of burnMultipleNFTs that passes the wallet check returns,
\* given that every awaited call settles; whenever it has returned, with
\* whatever outcome, the burning flag is false again; and while the flag is true
\* a step in which the wallet is or becomes disconnected leaves the page's step
\* and selections as they are.
C40_RunReturnsFlagCleared ==
    /\ [](flow.pc \in {"returned", "done"} => ~flow.burning)
    /\ flow.burning ~> (flow.pc = "returned")
    /\ [][(flow.burning /\ ~page'.connected) =>
             /\ page'.step = page.step
             /\ page'.burnSelections = page.burnSelections
             /\ page'.upgradeSelections = page.upgradeSelections]_vars

\* A burn that was confirmed at step 3 has returned with every NFT burned and
\* recorded after the wallet disconnected under it, and the page is as it was
C40_Witness ==
    /\ flow.pc = "returned"
    /\ flow.result.success
    /\ ~flow.burning
    /\ ~page.connected
    /\ page.step = 3
    /\ page.burnSelections = flow.nftsToBurn
    /\ Len(page.burnSelections) = 2

====
